---- MODULE Spec2Model ----
(***************************************************************************)
(* A model of the calculator tool of AytchMCP                               *)
(* (src/src/aytchmcp/tools/calculator.py).                                  *)
(*                                                                         *)
(* An expression is a sequence of characters, each character a one-letter  *)
(* string.  The sanitizer, the two regular expressions and the expression  *)
(* evaluator work on these sequences character by character.               *)
(*                                                                         *)
(* Python's eval is modelled for the part of the expression grammar the    *)
(* sanitized text can spell with the characters used here: numbers, names, *)
(* + - * / // **, unary sign, parentheses, calls with one argument,        *)
(* attribute access, the empty tuple and the ellipsis.  A text outside     *)
(* that part (a comma, a keyword of the expression grammar, an exponent or *)
(* radix literal, a number beyond the numeric range Lim) is "unmodelled"   *)
(* and is not drawn as an input.                                           *)
(*                                                                         *)
(* A float is a rational n/d in lowest terms with an exactness bit x: x is *)
(* TRUE when every float on the way to the value was a dyadic rational, so *)
(* that binary floating point computed exactly the rational.               *)
(***************************************************************************)
EXTENDS Integers, Sequences, FiniteSets, TLC

(***************************************************************************)
(* Bounds of the model.                                                    *)
(***************************************************************************)
\* the longest input expression, counted in pieces of an input family
MaxPieces == 5
\* the pieces of an expression of a process that serves several calls
MaxCallPieces == 2
\* the blocks of the object heap that finished calls can still hold
MaxHeld == 1
\* the names a list of enabled tools holds at most
MaxEnabled == 3
\* the calls made on one Context
MaxOps == 4
\* numerators and denominators stay within Lim
Lim == 100000000

(***************************************************************************)
(* Characters.                                                             *)
(***************************************************************************)
Digits == {"0", "1", "2", "3", "4", "5", "6", "7", "8", "9"}

AsciiLetters ==
    {"a", "b", "c", "d", "e", "f", "g", "h", "i", "j", "k", "l", "m",
     "n", "o", "p", "q", "r", "s", "t", "u", "v", "w", "x", "y", "z"}

\* a letter outside ASCII: \w matches it, [a-zA-Z_] does not
OtherLetters == {"é"}

Whitespace == {" "}

\* [a-zA-Z_]
IdentStartAscii == AsciiLetters \cup {"_"}

\* [a-zA-Z0-9_]
IdentContAscii == IdentStartAscii \cup Digits

\* \w of a str pattern: letters of any script, digits, underscore
WordChars == AsciiLetters \cup OtherLetters \cup Digits \cup {"_"}

\* the characters of the input alphabet that the sanitizer's class rejects
Unsafe == {";", "=", "^"}

Chars == WordChars \cup Whitespace \cup Unsafe \cup
         {"+", "-", "*", "/", "(", ")", ".", ",", "%"}

(***************************************************************************)
(* Sequences.                                                              *)
(***************************************************************************)
\* the concatenation of the sequences of ss, halving ss
RECURSIVE Flatten(_)
Flatten(ss) ==
    IF ss = <<>> THEN <<>>
    ELSE IF Len(ss) = 1 THEN ss[1]
    ELSE Flatten(SubSeq(ss, 1, Len(ss) \div 2))
         \o Flatten(SubSeq(ss, Len(ss) \div 2 + 1, Len(ss)))

\* the sequences of k elements of S
SeqsOf(S, k) == [1..k -> S]

\* the position of the first element at or after i that is not in S
RECURSIVE SkipWhile(_, _, _)
SkipWhile(s, i, S) ==
    IF i <= Len(s) /\ s[i] \in S THEN SkipWhile(s, i + 1, S) ELSE i

Slice(s, i, j) == SubSeq(s, i, j)

\* F(e), with e evaluated once
Bind(e, F(_)) == CHOOSE r \in {F(v) : v \in {e}} : TRUE

(***************************************************************************)
(* The sanitizer.                                                          *)
(***************************************************************************)
\* the class [0-9+\-*/().,%\s\w]
SafeChars ==
    Digits \cup {"+", "-", "*", "/", "(", ")", ".", ",", "%"}
           \cup Whitespace \cup WordChars

\* the substitution with [a-zA-Z0-9_] in the place of \w
StripUnsafeAscii(s) ==
    SelectSeq(s, LAMBDA c : c \in (SafeChars \ OtherLetters))

\* the substitution with a class that leaves out the slash
StripUnsafeNoSlash(s) ==
    SelectSeq(s, LAMBDA c : c \in (SafeChars \ {"/"}))

\* re.sub(r'[^0-9+\-*/().,%\s\w]', '', expression)
StripUnsafe(s) == SelectSeq(s, LAMBDA c : c \in SafeChars)

\* str.replace(old, new) for a one-character old
ReplaceChar(s, old, new) ==
    Flatten([k \in 1..Len(s) |-> IF s[k] = old THEN new ELSE <<s[k]>>])

_clean_expression(expression) ==
    LET stripped == StripUnsafe(expression)
        percent  == ReplaceChar(stripped, "%", <<"/", "1", "0", "0", "*">>)
        caret    == ReplaceChar(percent, "^", <<"*", "*">>)
    IN  caret

(***************************************************************************)
(* Numbers.                                                                *)
(***************************************************************************)
Abs(a) == IF a < 0 THEN -a ELSE a

Sign(a) == IF a < 0 THEN -1 ELSE IF a > 0 THEN 1 ELSE 0

RECURSIVE GCD(_, _)
GCD(a, b) == IF b = 0 THEN a ELSE GCD(b, a % b)

\* a * b stays within Lim
MulFits(a, b) == a = 0 \/ b = 0 \/ Abs(a) <= Lim \div Abs(b)

\* d is a power of two, for d in 1 .. Lim
RECURSIVE IsPow2(_)
IsPow2(d) == d = 1 \/ (d > 1 /\ d % 2 = 0 /\ IsPow2(d \div 2))

DigitVal(c) ==
    CASE c = "0" -> 0 [] c = "1" -> 1 [] c = "2" -> 2 [] c = "3" -> 3
      [] c = "4" -> 4 [] c = "5" -> 5 [] c = "6" -> 6 [] c = "7" -> 7
      [] c = "8" -> 8 [] c = "9" -> 9

DigitChar(n) ==
    CASE n = 0 -> "0" [] n = 1 -> "1" [] n = 2 -> "2" [] n = 3 -> "3"
      [] n = 4 -> "4" [] n = 5 -> "5" [] n = 6 -> "6" [] n = 7 -> "7"
      [] n = 8 -> "8" [] n = 9 -> "9"

\* the value of a digit string, or -1 when it is beyond Lim
RECURSIVE DigitsToNat(_, _)
DigitsToNat(ds, acc) ==
    IF ds = <<>> THEN acc
    ELSE IF acc > Lim \div 10 THEN -1
    ELSE DigitsToNat(Tail(ds), acc * 10 + DigitVal(Head(ds)))

RECURSIVE Pow10(_)
Pow10(k) == IF k = 0 THEN 1 ELSE 10 * Pow10(k - 1)

RECURSIVE NatToDigits(_)
NatToDigits(n) ==
    IF n < 10 THEN <<DigitChar(n)>>
    ELSE Append(NatToDigits(n \div 10), DigitChar(n % 10))

\* str(n) of an int
IntToStr(n) == IF n < 0 THEN <<"-">> \o NatToDigits(-n) ELSE NatToDigits(n)

(***************************************************************************)
(* Python values.  t is the type; n/d the number; x its exactness; s the   *)
(* name of a function or the text a string stands for.                     *)
(***************************************************************************)
Value(t, n, d, x, s) == [t |-> t, n |-> n, d |-> d, x |-> x, s |-> s]

IntV(n) == Value("int", n, 1, TRUE, <<>>)

\* a float n/d, reduced; inexact once it is not dyadic
FloatV(n, d, x) ==
    LET g == GCD(Abs(n), d)
    IN  Value("float", n \div g, d \div g, x /\ IsPow2(d \div g), <<>>)

\* float('inf') with sign sg
InfV(sg) == Value("inf", sg, 1, TRUE, <<>>)

NanV == Value("nan", 0, 1, TRUE, <<>>)

\* the float 1e308 with sign sg: finite, and so large that twice it is inf
BigV(sg) == Value("big", sg, 1, TRUE, <<>>)

\* a str; s stands for its text
StrV(s) == Value("str", 0, 1, TRUE, s)

\* a built-in function of the Function Table
FuncV(name) == Value("func", 0, 1, TRUE, name)

\* the empty tuple ()
TupleV == Value("tuple", 0, 1, TRUE, <<>>)

\* Ellipsis
EllipsisV == Value("ellipsis", 0, 1, TRUE, <<>>)

\* the type object named name: tuple, object
TypeV(name) == Value("type", 0, 1, TRUE, name)

\* an instance of object placed at the block address of the heap
ObjectV(address) == Value("object", address, 1, TRUE, <<>>)

\* the bound method name of an object, with what its call returns: the
\* address of the object for __hash__, the number of its entries for __len__
MethodV(address, name) == Value("method", address, 1, TRUE, name)

NoValue == Value("none", 0, 1, TRUE, <<>>)

IsNumber(v) == v.t \in {"int", "float", "inf", "nan", "big"}

IsFinite(v) == v.t \in {"int", "float"}

(***************************************************************************)
(* Exceptions and the outcome of a computation that may raise.             *)
(***************************************************************************)
Exc(type, msg) == [type |-> type, msg |-> msg]

NoExc == Exc("none", <<>>)

\* cleared: the module-level dicts the computation has emptied
Ok(v) == [st |-> "ok", v |-> v, exc |-> NoExc, cleared |-> {}]

Raise(type, msg) ==
    [st |-> "raise", v |-> NoValue, exc |-> Exc(type, msg), cleared |-> {}]

\* outside the modelled part of Python
Unmodelled == [st |-> "unm", v |-> NoValue, exc |-> NoExc, cleared |-> {}]

\* the outcome r of a step that follows steps which emptied the dicts done
After(r, done) == [r EXCEPT !.cleared = @ \cup done]

SyntaxErr == Raise("SyntaxError", <<"invalid syntax">>)

(***************************************************************************)
(* Python keywords.                                                        *)
(***************************************************************************)
\* keywords that occur in no expression: eval raises SyntaxError on them
StatementKeywords ==
    {<<"a","s">>, <<"a","s","s","e","r","t">>, <<"b","r","e","a","k">>,
     <<"c","l","a","s","s">>, <<"c","o","n","t","i","n","u","e">>, <<"d","e","f">>,
     <<"d","e","l">>, <<"e","l","i","f">>, <<"e","x","c","e","p","t">>,
     <<"f","i","n","a","l","l","y">>, <<"f","r","o","m">>, <<"g","l","o","b","a","l">>,
     <<"i","m","p","o","r","t">>, <<"n","o","n","l","o","c","a","l">>, <<"p","a","s","s">>,
     <<"r","a","i","s","e">>, <<"r","e","t","u","r","n">>, <<"t","r","y">>,
     <<"w","h","i","l","e">>, <<"w","i","t","h">>}

\* keywords of the expression grammar: not modelled
ExpressionKeywords ==
    {<<"F","a","l","s","e">>, <<"N","o","n","e">>, <<"T","r","u","e">>,
     <<"a","n","d">>, <<"o","r">>, <<"n","o","t">>,
     <<"i","f">>, <<"e","l","s","e">>, <<"i","n">>,
     <<"i","s">>, <<"l","a","m","b","d","a">>, <<"f","o","r">>,
     <<"a","w","a","i","t">>, <<"y","i","e","l","d">>, <<"a","s","y","n","c">>}

(***************************************************************************)
(* The tokenizer of eval.                                                  *)
(***************************************************************************)
Tok(k, op, name, v) == [k |-> k, op |-> op, name |-> name, v |-> v]

OpTok(op) == Tok("op", op, <<>>, NoValue)

NameTok(name) == Tok("name", "", name, NoValue)

NumTok(v) == Tok("num", "", <<>>, v)

\* the characters that can start or continue a Python identifier
IdentStart == AsciiLetters \cup OtherLetters \cup {"_"}

CharAt(s, i) == IF i >= 1 /\ i <= Len(s) THEN s[i] ELSE ""

\* the number literal of s that starts at i and ends before j: an int, or
\* a float when it has a point at position p (p = 0: no point)
NumberLiteral(s, i, p, j) ==
    IF p = 0
    THEN LET ds == Slice(s, i, j - 1)
             n  == DigitsToNat(ds, 0)
         IN  IF n < 0 THEN Unmodelled
             ELSE IF Len(ds) > 1 /\ ds[1] = "0" /\ n # 0
             THEN SyntaxErr    \* leading zeros in a decimal integer
             ELSE Ok(IntV(n))
    ELSE LET ip == Slice(s, i, p - 1)
             fp == Slice(s, p + 1, j - 1)
             n  == DigitsToNat(ip \o fp, 0)
         IN  IF n < 0 \/ Len(fp) > 6 THEN Unmodelled
             ELSE Ok(FloatV(n, Pow10(Len(fp)), TRUE))

\* the literal <mantissa>e<exponent> of an integer mantissa: a float
ExponentLiteral(mantissa, exponent) ==
    LET n == DigitsToNat(mantissa, 0)
        e == DigitsToNat(exponent, 0)
    IN  IF n < 0 THEN Unmodelled
        ELSE IF n = 0 THEN Ok(FloatV(0, 1, TRUE))
        ELSE IF e < 0 \/ e > 308 \/ (e = 308 /\ n > 1) THEN Ok(InfV(1))
        ELSE IF e = 308 THEN Ok(BigV(1))
        ELSE IF e <= 8 /\ MulFits(n, Pow10(e))
        THEN Ok(FloatV(n * Pow10(e), 1, TRUE))
        ELSE Unmodelled

\* what follows a number literal that ends before j
AfterNumber(s, i, j) ==
    LET c == CharAt(s, j)
        k == SkipWhile(s, j, WordChars)
    IN  IF c \notin IdentStart THEN "fine"
        ELSE IF c \in {"e", "j", "_"} THEN "unm"      \* 1e3, 1j, 1_0
        ELSE IF c \in {"x", "o", "b"} /\ Slice(s, i, j - 1) = <<"0">>
        THEN "unm"                                    \* 0x10, 0o7, 0b1
        ELSE IF Slice(s, j, k - 1) \in ExpressionKeywords THEN "unm"
        ELSE "syntax"                                 \* invalid literal

LexOk(toks) == [st |-> "ok", toks |-> toks]

LexFail(st) == [st |-> st, toks |-> <<>>]

\* the tokens of s from i on, one after the other
RECURSIVE LexRun(_, _)
LexRun(s, i) ==
    IF i > Len(s) THEN LexOk(<<>>)
    ELSE
    LET c == s[i]
        \* the token at i as <<status, token, position after it>>
        one ==
          IF c \in Whitespace THEN <<"skip", OpTok(""), i + 1>>
          ELSE IF c \in Digits \/ (c = "." /\ CharAt(s, i + 1) \in Digits)
          THEN LET j   == SkipWhile(s, i, Digits)
                   pt  == CharAt(s, j) = "."
                   k   == IF pt THEN SkipWhile(s, j + 1, Digits) ELSE j
                   ex  == CharAt(s, k) = "e" /\ CharAt(s, k + 1) \in Digits
                   m   == IF ex THEN SkipWhile(s, k + 1, Digits) ELSE k
                   lit == IF ~ex
                          THEN NumberLiteral(s, i, IF pt THEN j ELSE 0, k)
                          ELSE IF pt THEN Unmodelled
                          ELSE ExponentLiteral(Slice(s, i, k - 1),
                                               Slice(s, k + 1, m - 1))
                   aft == AfterNumber(s, i, m)
               IN  IF lit.st = "unm" \/ aft = "unm"
                   THEN <<"unm", OpTok(""), m>>
                   ELSE IF lit.st = "raise" \/ aft = "syntax"
                   THEN <<"syntax", OpTok(""), m>>
                   ELSE <<"ok", NumTok(lit.v), m>>
          ELSE IF c \in IdentStart
          THEN LET k    == SkipWhile(s, i, WordChars)
                   name == Slice(s, i, k - 1)
               IN  IF name \in ExpressionKeywords
                   THEN <<"unm", OpTok(""), k>>
                   ELSE IF name \in StatementKeywords
                   THEN <<"syntax", OpTok(""), k>>
                   ELSE <<"ok", NameTok(name), k>>
          ELSE IF c = "*" /\ CharAt(s, i + 1) = "*"
          THEN <<"ok", OpTok("**"), i + 2>>
          ELSE IF c = "/" /\ CharAt(s, i + 1) = "/"
          THEN <<"ok", OpTok("//"), i + 2>>
          ELSE IF c = "." /\ CharAt(s, i + 1) = "." /\ CharAt(s, i + 2) = "."
          THEN <<"ok", OpTok("..."), i + 3>>
          ELSE IF c \in {"+", "-", "*", "/", "(", ")", "."}
          THEN <<"ok", OpTok(c), i + 1>>
          ELSE <<"unm", OpTok(""), i + 1>>     \* a comma, or no Python
        rest == LexRun(s, one[3])
    IN  IF one[1] = "unm" \/ rest.st = "unm" THEN LexFail("unm")
        ELSE IF one[1] = "syntax" \/ rest.st = "syntax" THEN LexFail("syntax")
        ELSE IF one[1] = "skip" THEN rest
        ELSE LexOk(<<one[2]>> \o rest.toks)

\* the tokens of a followed by those of b
LexJoin(a, b) ==
    IF a.st = "unm" \/ b.st = "unm" THEN LexFail("unm")
    ELSE IF a.st = "syntax" \/ b.st = "syntax" THEN LexFail("syntax")
    ELSE LexOk(a.toks \o b.toks)

\* the positions of the parentheses of s: each is a token of its own,
\* whatever stands next to it
ParenPositions(s) == {k \in 1..Len(s) : s[k] \in {"(", ")"}}

\* the tokens of s: of what stands before a parenthesis of s, of the
\* parenthesis, and of what stands after it
RECURSIVE LexParts(_)
LexParts(s) ==
    IF ParenPositions(s) = {} THEN LexRun(s, 1)
    ELSE Bind(CHOOSE p \in ParenPositions(s) :
                \A q \in ParenPositions(s) :
                   Abs(2 * p - Len(s)) <= Abs(2 * q - Len(s)),
              LAMBDA p :
                LexJoin(LexJoin(LexParts(SubSeq(s, 1, p - 1)),
                                LexOk(<<OpTok(s[p])>>)),
                        LexParts(SubSeq(s, p + 1, Len(s)))))

\* the tokens of s from i on
Lex(s, i) == LexParts(SubSeq(s, i, Len(s)))

(***************************************************************************)
(* The parser of eval: the expression grammar of Python over the tokens    *)
(* above.  A parse is [st, ast, pos]: pos is the position after the        *)
(* phrase.                                                                 *)
(***************************************************************************)
Num(v) == [k |-> "num", v |-> v]

Name(name) == [k |-> "name", name |-> name]

Bin(op, l, r) == [k |-> "bin", op |-> op, l |-> l, r |-> r]

Un(op, e) == [k |-> "un", op |-> op, e |-> e]

Attr(e, name) == [k |-> "attr", e |-> e, name |-> name]

\* a call; star: the argument is unpacked (f(*e), f(**e))
Call(f, args, star) == [k |-> "call", f |-> f, args |-> args, star |-> star]

Tuple0 == [k |-> "tuple0"]

Ellipsis == [k |-> "ellipsis"]

Parsed(ast, pos) == [st |-> "ok", ast |-> ast, pos |-> pos]

NoParse == [st |-> "syntax", ast |-> Tuple0, pos |-> 0]

IsOp(toks, p, ops) == p <= Len(toks) /\ toks[p].k = "op" /\ toks[p].op \in ops

RECURSIVE PExpr(_, _), PArithRest(_, _, _), PTerm(_, _), PTermRest(_, _, _),
          PFactor(_, _), PPower(_, _), PAtom(_, _), PTrailers(_, _, _),
          PInParens(_, _)

\* sum: sum ('+' | '-') term | term
PArithRest(toks, left, p) ==
    IF IsOp(toks, p, {"+", "-"})
    THEN Bind(PTerm(toks, p + 1), LAMBDA r :
           IF r.st # "ok" THEN NoParse
           ELSE PArithRest(toks, Bin(toks[p].op, left, r.ast), r.pos))
    ELSE Parsed(left, p)

PExpr(toks, p) ==
    Bind(PTerm(toks, p), LAMBDA t :
      IF t.st # "ok" THEN NoParse ELSE PArithRest(toks, t.ast, t.pos))

\* term: term ('*' | '/' | '//') factor | factor
PTermRest(toks, left, p) ==
    IF IsOp(toks, p, {"*", "/", "//"})
    THEN Bind(PFactor(toks, p + 1), LAMBDA r :
           IF r.st # "ok" THEN NoParse
           ELSE PTermRest(toks, Bin(toks[p].op, left, r.ast), r.pos))
    ELSE Parsed(left, p)

PTerm(toks, p) ==
    Bind(PFactor(toks, p), LAMBDA f :
      IF f.st # "ok" THEN NoParse ELSE PTermRest(toks, f.ast, f.pos))

\* power: primary ['**' factor]
PPower(toks, p) ==
    Bind(PAtom(toks, p), LAMBDA a :
      IF a.st # "ok" THEN NoParse
      ELSE Bind(PTrailers(toks, a.ast, a.pos), LAMBDA b :
             IF b.st = "ok" /\ IsOp(toks, b.pos, {"**"})
             THEN Bind(PFactor(toks, b.pos + 1), LAMBDA f :
                    IF f.st # "ok" THEN NoParse
                    ELSE Parsed(Bin("**", b.ast, f.ast), f.pos))
             ELSE b))

\* factor: ('+' | '-') factor | power
PFactor(toks, p) ==
    Bind(IF IsOp(toks, p, {"+", "-"}) THEN PFactor(toks, p + 1)
         ELSE PPower(toks, p),
         LAMBDA f :
           IF f.st = "ok" /\ IsOp(toks, p, {"+", "-"})
           THEN Parsed(Un(toks[p].op, f.ast), f.pos)
           ELSE f)

\* the phrase in parentheses that starts at p, then the closing one
PInParens(toks, p) ==
    Bind(PExpr(toks, p), LAMBDA e :
      IF e.st = "ok" /\ IsOp(toks, e.pos, {")"})
      THEN Parsed(e.ast, e.pos + 1)
      ELSE NoParse)

\* primary: primary '.' NAME | primary '(' [argument] ')' | atom
PTrailers(toks, left, p) ==
    IF IsOp(toks, p, {"."})
    THEN IF p + 1 <= Len(toks) /\ toks[p + 1].k = "name"
         THEN PTrailers(toks, Attr(left, toks[p + 1].name), p + 2)
         ELSE NoParse
    ELSE IF IsOp(toks, p, {"("})
    THEN Bind(IF IsOp(toks, p + 1, {")"}) THEN Parsed(Tuple0, p + 2)
              ELSE IF IsOp(toks, p + 1, {"*", "**"})
              THEN PInParens(toks, p + 2)
              ELSE PInParens(toks, p + 1),
              LAMBDA e :
                IF e.st # "ok" THEN NoParse
                ELSE PTrailers(toks,
                       Call(left,
                            IF IsOp(toks, p + 1, {")"}) THEN <<>>
                            ELSE <<e.ast>>,
                            IsOp(toks, p + 1, {"*", "**"})),
                       e.pos))
    ELSE Parsed(left, p)

\* atom: NUMBER | NAME | '(' expression ')' | '(' ')' | '...'
PAtom(toks, p) ==
    IF p > Len(toks) THEN NoParse
    ELSE IF toks[p].k = "num" THEN Parsed(Num(toks[p].v), p + 1)
    ELSE IF toks[p].k = "name" THEN Parsed(Name(toks[p].name), p + 1)
    ELSE IF IsOp(toks, p, {"..."}) THEN Parsed(Ellipsis, p + 1)
    ELSE IF IsOp(toks, p, {"("})
    THEN IF IsOp(toks, p + 1, {")"}) THEN Parsed(Tuple0, p + 2)
         ELSE PInParens(toks, p + 1)
    ELSE NoParse

\* compile(source, '<string>', 'eval'): the whole text is one expression
Parse(toks) ==
    Bind(PExpr(toks, 1), LAMBDA e :
      IF e.st = "ok" /\ e.pos = Len(toks) + 1 THEN e ELSE NoParse)

(***************************************************************************)
(* Arithmetic of Python numbers.                                           *)
(***************************************************************************)
\* a finite number n/d as an int or a float, when it is within Lim
Fin(isInt, n, d, x) ==
    IF isInt
    THEN IF Abs(n) <= Lim THEN Ok(IntV(n)) ELSE Unmodelled
    ELSE LET f == FloatV(n, d, x)
         IN  IF Abs(f.n) <= Lim /\ f.d <= Lim THEN Ok(f) ELSE Unmodelled

\* floor(n / d) for d # 0
Floor(n, d) == IF d > 0 THEN n \div d ELSE (-n) \div (-d)

\* b^k for b >= 0, or -1 when it is beyond Lim
RECURSIVE PowNat(_, _)
PowNat(b, k) ==
    IF k = 0 THEN 1
    ELSE Bind(PowNat(b, k \div 2), LAMBDA h :
           IF h < 0 \/ ~MulFits(h, h) THEN -1
           ELSE IF k % 2 = 0 THEN h * h
           ELSE IF ~MulFits(h * h, b) THEN -1
           ELSE h * h * b)

\* the square root of n when n is a perfect square, else -1
RECURSIVE ISqrtFrom(_, _)
ISqrtFrom(n, r) ==
    IF r * r = n THEN r ELSE IF r * r > n THEN -1 ELSE ISqrtFrom(n, r + 1)

\* -1, 0 or 1: the sign of a number
SgnOf(v) == IF v.t = "inf" THEN v.n ELSE Sign(v.n)

\* a float zero that rounding may have produced from a non-zero value, or
\* the reverse
DoubtfulZero(v) == v.t = "float" /\ v.n = 0 /\ ~v.x

Negate(v) ==
    CASE v.t = "int"   -> IntV(-v.n)
      [] v.t = "float" -> Value("float", -v.n, v.d, v.x, <<>>)
      [] v.t = "inf"   -> InfV(-v.n)
      [] v.t = "big"   -> BigV(-v.n)
      [] OTHER         -> v

ZeroDiv == Raise("ZeroDivisionError", <<"division by zero">>)

\* a + b of finite numbers
AddFin(a, b) ==
    IF MulFits(a.n, b.d) /\ MulFits(b.n, a.d) /\ MulFits(a.d, b.d)
    THEN Fin(a.t = "int" /\ b.t = "int",
             a.n * b.d + b.n * a.d, a.d * b.d, a.x /\ b.x)
    ELSE Unmodelled

MulFin(a, b) ==
    IF MulFits(a.n, b.n) /\ MulFits(a.d, b.d)
    THEN Fin(a.t = "int" /\ b.t = "int", a.n * b.n, a.d * b.d, a.x /\ b.x)
    ELSE Unmodelled

\* a / b: true division
DivFin(a, b) ==
    IF b.n = 0 THEN ZeroDiv
    ELSE IF MulFits(a.n, b.d) /\ MulFits(a.d, b.n)
    THEN Fin(FALSE, a.n * b.d * Sign(b.n), a.d * Abs(b.n), a.x /\ b.x)
    ELSE Unmodelled

\* a // b: floor division
FloorDivFin(a, b) ==
    IF b.n = 0 THEN ZeroDiv
    ELSE IF ~(a.x /\ b.x) THEN Unmodelled
    ELSE IF MulFits(a.n, b.d) /\ MulFits(a.d, b.n)
    THEN Fin(a.t = "int" /\ b.t = "int",
             Floor(a.n * b.d, a.d * b.n), 1, TRUE)
    ELSE Unmodelled

\* a ** k for an integer k; the result is a float when asFloat
PowInt(a, k, asFloat) ==
    IF k >= 0
    THEN LET pn == PowNat(Abs(a.n), k)
             pd == PowNat(a.d, k)
             sg == IF a.n < 0 /\ k % 2 = 1 THEN -1 ELSE 1
         IN  IF pn < 0 \/ pd < 0 THEN Unmodelled
             ELSE Fin(a.t = "int" /\ ~asFloat, sg * pn, pd, a.x)
    ELSE IF a.n = 0 THEN ZeroDiv
    ELSE LET pn == PowNat(a.d, -k)
             pd == PowNat(Abs(a.n), -k)
             sg == IF a.n < 0 /\ (-k) % 2 = 1 THEN -1 ELSE 1
         IN  IF pn < 0 \/ pd < 0 THEN Unmodelled
             ELSE Fin(FALSE, sg * pn, pd, a.x)

\* a ** b
PowFin(a, b) ==
    IF b.t = "int" THEN PowInt(a, b.n, FALSE)
    ELSE IF b.d = 1 /\ b.x THEN PowInt(a, b.n, TRUE)
    ELSE Unmodelled        \* a fractional exponent: irrational or complex

\* + - * / with an infinity or a NaN among the operands
ArithSpecial(op, a, b) ==
    LET nan == a.t = "nan" \/ b.t = "nan"
    IN  CASE op = "+" ->
               IF nan THEN Ok(NanV)
               ELSE IF a.t = "inf" /\ b.t = "inf"
               THEN IF a.n = b.n THEN Ok(a) ELSE Ok(NanV)
               ELSE IF a.t = "inf" THEN Ok(a) ELSE Ok(b)
          [] op = "*" ->
               IF nan THEN Ok(NanV)
               ELSE IF SgnOf(a) * SgnOf(b) = 0 THEN Ok(NanV)
               ELSE Ok(InfV(SgnOf(a) * SgnOf(b)))
          [] op = "/" ->
               IF IsFinite(b) /\ b.n = 0 THEN ZeroDiv
               ELSE IF nan THEN Ok(NanV)
               ELSE IF a.t = "inf" /\ b.t = "inf" THEN Ok(NanV)
               ELSE IF a.t = "inf" THEN Ok(InfV(a.n * SgnOf(b)))
               ELSE Ok(FloatV(0, 1, TRUE))
          [] OTHER -> Unmodelled

OverflowErr == Raise("OverflowError", <<"Numerical result out of range">>)

\* a op b with 1e308 or -1e308 among the operands; op is not "-"
ArithBig(op, a, b) ==
    LET big   == IF a.t = "big" THEN a ELSE b
        v     == IF a.t = "big" THEN b ELSE a
        both  == a.t = "big" /\ b.t = "big"
    IN  IF ~IsFinite(v) /\ ~both THEN Unmodelled   \* with an inf or a NaN
        ELSE CASE op = "*" ->
               IF both THEN Ok(InfV(a.n * b.n))
               ELSE IF v.n = 0 THEN Ok(FloatV(0, 1, TRUE))
               ELSE IF Abs(v.n) >= 2 * v.d THEN Ok(InfV(big.n * Sign(v.n)))
               ELSE IF Abs(v.n) = v.d THEN Ok(BigV(big.n * Sign(v.n)))
               ELSE Unmodelled
          [] op = "+" ->
               IF ~both THEN Ok(big)     \* the finite operand is absorbed
               ELSE IF a.n = b.n THEN Ok(InfV(a.n))
               ELSE Ok(FloatV(0, 1, TRUE))
          [] op = "/" ->
               IF both THEN Ok(FloatV(a.n * b.n, 1, TRUE))
               ELSE IF b.t # "big"
               THEN IF v.n = 0 THEN ZeroDiv
                    ELSE IF Abs(v.n) = v.d THEN Ok(BigV(big.n * Sign(v.n)))
                    ELSE IF 2 * Abs(v.n) <= v.d
                    THEN Ok(InfV(big.n * Sign(v.n)))
                    ELSE Unmodelled
               ELSE IF v.n = 0 THEN Ok(FloatV(0, 1, TRUE))
               ELSE Unmodelled
          [] op = "//" ->
               IF b.t # "big" /\ v.n = 0 THEN ZeroDiv ELSE Unmodelled
          [] op = "**" ->
               IF both THEN IF b.n > 0 THEN OverflowErr ELSE Unmodelled
               ELSE IF a.t # "big" THEN Unmodelled
               ELSE IF v.n = 0 THEN Ok(FloatV(1, 1, TRUE))
               ELSE IF v.n = v.d THEN Ok(big)
               ELSE IF v.n >= 2 * v.d THEN OverflowErr
               ELSE Unmodelled

TypeErr == Raise("TypeError", <<"unsupported operand type(s)">>)

\* a op b of two Python values
Arith(op, a, b) ==
    IF IsNumber(a) /\ IsNumber(b)
    THEN IF DoubtfulZero(a) \/ DoubtfulZero(b) THEN Unmodelled
         ELSE IF a.t = "big" \/ b.t = "big"
         THEN IF op = "-" THEN ArithBig("+", a, Negate(b))
              ELSE ArithBig(op, a, b)
         ELSE IF op = "-"
         THEN IF IsFinite(a) /\ IsFinite(b) THEN AddFin(a, Negate(b))
              ELSE ArithSpecial("+", a, Negate(b))
         ELSE IF ~(IsFinite(a) /\ IsFinite(b)) THEN ArithSpecial(op, a, b)
         ELSE CASE op = "+"  -> AddFin(a, b)
                [] op = "*"  -> MulFin(a, b)
                [] op = "/"  -> DivFin(a, b)
                [] op = "//" -> FloorDivFin(a, b)
                [] op = "**" -> PowFin(a, b)
    ELSE IF op = "+" /\ a.t = b.t /\ a.t \in {"str", "tuple"}
    THEN Ok(a)             \* a concatenation: a str, or the empty tuple
    ELSE IF op = "*" /\ a.t \in {"str", "tuple"} /\ b.t = "int" THEN Ok(a)
    ELSE IF op = "*" /\ b.t \in {"str", "tuple"} /\ a.t = "int" THEN Ok(b)
    ELSE TypeErr

\* + v and - v
Unary(op, v) ==
    IF ~IsNumber(v) THEN Raise("TypeError", <<"bad operand type for unary">>)
    ELSE IF op = "-" THEN Ok(Negate(v)) ELSE Ok(v)

(***************************************************************************)
(* The Function Table and the constant table.                              *)
(***************************************************************************)
\* the keys of _safe_functions
SafeFunctionNames ==
    {<<"a","b","s">>, <<"r","o","u","n","d">>, <<"m","i","n">>,
     <<"m","a","x">>, <<"s","u","m">>, <<"l","e","n">>,
     <<"s","i","n">>, <<"c","o","s">>, <<"t","a","n">>,
     <<"a","s","i","n">>, <<"a","c","o","s">>, <<"a","t","a","n">>,
     <<"a","t","a","n","2">>, <<"s","i","n","h">>, <<"c","o","s","h">>,
     <<"t","a","n","h">>, <<"e","x","p">>, <<"l","o","g">>,
     <<"l","o","g","1","0">>, <<"l","o","g","2">>, <<"s","q","r","t">>,
     <<"p","o","w">>, <<"d","e","g","r","e","e","s">>, <<"r","a","d","i","a","n","s">>,
     <<"c","e","i","l">>, <<"f","l","o","o","r">>, <<"t","r","u","n","c">>,
     <<"f","a","c","t","o","r","i","a","l">>, <<"g","c","d">>}

\* the dict the module binds to _safe_functions when it is loaded:
\* name -> built-in function
LoadedFunctions == [name \in SafeFunctionNames |-> FuncV(name)]

\* the dict the module binds to _safe_constants when it is loaded; pi, e
\* and tau to seven decimals
LoadedConstants ==
    (<<"p","i">> :> Value("float", 31415927, 10000000, FALSE, <<>>)) @@
    (<<"e">> :> Value("float", 27182818, 10000000, FALSE, <<>>)) @@
    (<<"t","a","u">> :> Value("float", 62831853, 10000000, FALSE, <<>>)) @@
    (<<"i","n","f">> :> InfV(1)) @@
    (<<"n","a","n">> :> NanV)

\* dict.update: the entries of d2 replace and extend those of d1
DictUpdate(d1, d2) ==
    [k \in DOMAIN d1 \cup DOMAIN d2 |-> IF k \in DOMAIN d2 THEN d2[k] ELSE d1[k]]

EmptyDict == [k \in {} |-> NoValue]

\* The two dicts are globals of the module: every call reads the objects
\* the names are bound to at that moment.
VARIABLES
    _safe_functions,   \* the dict the global _safe_functions is bound to
    _safe_constants    \* the dict the global _safe_constants is bound to

tables == <<_safe_functions, _safe_constants>>

BuiltinsKey == <<"_","_","b","u","i","l","t","i","n","s","_","_">>

\* {"__builtins__": {}}
NoBuiltins == (BuiltinsKey :> Value("dict", 0, 1, TRUE, <<>>))

(***************************************************************************)
(* Attributes and calls.                                                   *)
(***************************************************************************)
RealName == <<"r","e","a","l">>
ImagName == <<"i","m","a","g">>
DocName == <<"_","_","d","o","c","_","_">>
ClassName == <<"_","_","c","l","a","s","s","_","_">>
BaseName == <<"_","_","b","a","s","e","_","_">>
HashName == <<"_","_","h","a","s","h","_","_">>
LenName == <<"_","_","l","e","n","_","_">>
SelfName == <<"_","_","s","e","l","f","_","_">>
ImportName == <<"_","_","i","m","p","o","r","t","_","_">>
LoaderName == <<"_","_","l","o","a","d","e","r","_","_">>
ModuleName == <<"_","_","m","o","d","u","l","e","_","_">>
SysName == <<"s","y","s">>
GetFrameName == <<"_","g","e","t","f","r","a","m","e">>
FGlobalsName == <<"f","_","g","l","o","b","a","l","s">>
FCodeName == <<"f","_","c","o","d","e">>
CoNamesName == <<"c","o","_","n","a","m","e","s">>
GetItemName == <<"_","_","g","e","t","i","t","e","m","_","_">>
GetName == <<"g","e","t">>
ClearName == <<"c","l","e","a","r">>

\* the functions of the table that are built-ins; the others are of math
BuiltinFunctionNames ==
    {<<"a","b","s">>, <<"r","o","u","n","d">>, <<"m","i","n">>, <<"m","a","x">>, <<"s","u","m">>, <<"l","e","n">>, <<"p","o","w">>}

\* the names of the objects the interpreter holds besides the values of
\* the namespace
BuiltinsModule == <<"b","u","i","l","t","i","n","s">>
MathModule == <<"m","a","t","h">>
FrozenImportlib == <<"_","f","r","o","z","e","n","_","i","m","p","o","r","t","l","i","b">>
BuiltinImporter == <<"B","u","i","l","t","i","n","I","m","p","o","r","t","e","r">>
EvaluateExpressionName == <<"_","e","v","a","l","u","a","t","e","_","e","x","p","r","e","s","s","i","o","n">>
SafeFunctionsKey == <<"_","s","a","f","e","_","f","u","n","c","t","i","o","n","s">>
SafeConstantsKey == <<"_","s","a","f","e","_","c","o","n","s","t","a","n","t","s">>
CalculatorGlobals == <<"g","l","o","b","a","l","s">>

\* a module, the frame of a running function, its code object and the
\* tuple co_names of the code object; s: the name of the module or function
ModuleV(name) == Value("module", 0, 1, TRUE, name)
FrameV(function) == Value("frame", 0, 1, TRUE, function)
CodeV(function) == Value("code", 0, 1, TRUE, function)
CoNamesV(function) == Value("co_names", 0, 1, TRUE, function)

\* a dict other than the empty one of NoBuiltins; s: the global it is
\* bound to, or CalculatorGlobals for the globals of the module
DictV(name) == Value("dict", 1, 1, TRUE, name)

\* the method `method` of the dict or tuple named self
BoundV(method, self) == Value(method, 0, 1, TRUE, self)

NoneV == Value("NoneType", 0, 1, TRUE, <<>>)

\* _evaluate_expression.__code__.co_names: the globals and attributes the
\* function names, in the order lines 183-206 first use them
co_names ==
    <<<<"r","e">>,
      <<"m","a","t","c","h">>,
      <<"a","p","p","e","n","d">>,
      <<"e","v","a","l">>,
      <<"f","i","n","d","a","l","l">>,
      <<"_","s","a","f","e","_","f","u","n","c","t","i","o","n","s">>,
      <<"V","a","l","u","e","E","r","r","o","r">>,
      <<"u","p","d","a","t","e">>>>

\* the types whose other attributes are not modelled
Reflective ==
    {"type", "object", "method", "module", "frame", "code", "co_names",
     "dict.get", "dict.clear", "tuple.__getitem__"}

\* names that none of the modelled types has as an attribute
NoSuchAttribute ==
    SafeFunctionNames \cup DOMAIN LoadedConstants \cup
    {<<"x">>, <<"f","o","o">>, <<"é">>}

AttributeErr(name) == Raise("AttributeError", <<"object has no attribute", name>>)

\* getattr(v, name)
GetAttr(v, name) ==
    IF name = RealName
    THEN IF IsNumber(v) THEN Ok(v) ELSE AttributeErr(name)
    ELSE IF name = ImagName
    THEN IF v.t = "int" THEN Ok(IntV(0))
         ELSE IF IsNumber(v) THEN Ok(FloatV(0, 1, TRUE))
         ELSE AttributeErr(name)
    ELSE IF name = DocName
    THEN IF v.t = "ellipsis" THEN Ok(NoneV)
         ELSE Ok(StrV(<<"doc of ", v.t>>))
    ELSE IF name = ClassName
    THEN IF v.t = "tuple" THEN Ok(TypeV(<<"tuple">>)) ELSE Unmodelled
    ELSE IF name = BaseName
    THEN IF v.t = "type" /\ v.s = <<"tuple">> THEN Ok(TypeV(<<"object">>))
         ELSE Unmodelled
    ELSE IF name = HashName
    THEN IF v.t = "object" THEN Ok(MethodV(v.n, HashName)) ELSE Unmodelled
    ELSE IF name = LenName
    THEN IF v.t = "dict" /\ v.s = <<>> THEN Ok(MethodV(0, LenName))
         ELSE Unmodelled
    ELSE IF name = SelfName
    THEN IF v.t = "func" /\ v.s \in SafeFunctionNames
         THEN Ok(ModuleV(IF v.s \in BuiltinFunctionNames THEN BuiltinsModule
                         ELSE MathModule))
         ELSE Unmodelled
    ELSE IF name = ImportName
    THEN IF v = ModuleV(BuiltinsModule) THEN Ok(FuncV(ImportName))
         ELSE Unmodelled
    ELSE IF name = LoaderName
    THEN IF v = ModuleV(BuiltinsModule) THEN Ok(TypeV(BuiltinImporter))
         ELSE Unmodelled
    ELSE IF name = ModuleName
    THEN IF v = TypeV(BuiltinImporter) THEN Ok(StrV(FrozenImportlib))
         ELSE Unmodelled
    ELSE IF name = SysName
    THEN IF v = ModuleV(FrozenImportlib) THEN Ok(ModuleV(SysName))
         ELSE Unmodelled
    ELSE IF name = GetFrameName
    THEN IF v = ModuleV(SysName) THEN Ok(FuncV(GetFrameName))
         ELSE Unmodelled
    ELSE IF name = FGlobalsName
    THEN IF v = FrameV(EvaluateExpressionName) THEN Ok(DictV(CalculatorGlobals))
         ELSE Unmodelled
    ELSE IF name = FCodeName
    THEN IF v.t = "frame" THEN Ok(CodeV(v.s)) ELSE Unmodelled
    ELSE IF name = CoNamesName
    THEN IF v.t = "code" THEN Ok(CoNamesV(v.s)) ELSE Unmodelled
    ELSE IF name = GetItemName
    THEN IF v.t = "co_names" THEN Ok(BoundV("tuple.__getitem__", v.s))
         ELSE Unmodelled
    ELSE IF name = GetName
    THEN IF v = DictV(CalculatorGlobals) THEN Ok(BoundV("dict.get", v.s))
         ELSE Unmodelled
    ELSE IF name = ClearName
    THEN IF v \in {DictV(SafeFunctionsKey), DictV(SafeConstantsKey)}
         THEN Ok(BoundV("dict.clear", v.s))
         ELSE Unmodelled
    ELSE IF name \in NoSuchAttribute
    THEN IF v.t \in Reflective THEN Unmodelled
         ELSE AttributeErr(name)
    ELSE Unmodelled

SqrtName == <<"s","q","r","t">>
AbsName == <<"a","b","s">>

\* math.sqrt(v)
MathSqrt(v) ==
    IF ~IsNumber(v) THEN Raise("TypeError", <<"must be real number">>)
    ELSE IF v.t = "nan" THEN Ok(NanV)
    ELSE IF v.t = "big"
    THEN IF v.n > 0 THEN Unmodelled
         ELSE Raise("ValueError", <<"math domain error">>)
    ELSE IF v.t = "inf"
    THEN IF v.n > 0 THEN Ok(v) ELSE Raise("ValueError", <<"math domain error">>)
    ELSE IF v.n < 0 THEN Raise("ValueError", <<"math domain error">>)
    ELSE LET rn == ISqrtFrom(v.n, 0)
             rd == ISqrtFrom(v.d, 0)
         IN  IF rn < 0 \/ rd < 0 THEN Unmodelled   \* an irrational root
             ELSE Fin(FALSE, rn, rd, v.x)

\* abs(v)
BuiltinAbs(v) ==
    IF ~IsNumber(v) THEN Raise("TypeError", <<"bad operand type for abs()">>)
    ELSE IF SgnOf(v) < 0 THEN Ok(Negate(v)) ELSE Ok(v)

\* f(*args): args holds no or one value; star: it is unpacked.  free is
\* the block of the object heap the allocator hands out next: where a new
\* object is placed, and so what its id() and default __hash__ return.
Apply(f, args, star, free) ==
    IF f.t = "type"
    THEN IF f.s = <<"object">> /\ args = <<>> THEN Ok(ObjectV(free))
         ELSE Unmodelled
    ELSE IF f.t = "method"
    THEN IF f.s \in {HashName, LenName} /\ args = <<>> THEN Ok(IntV(f.n))
         ELSE Unmodelled
    ELSE IF f.t = "tuple.__getitem__"
    THEN IF /\ f.s = EvaluateExpressionName /\ ~star /\ Len(args) = 1
            /\ args[1].t = "int" /\ args[1].n \in 0..(Len(co_names) - 1)
         THEN Ok(StrV(co_names[args[1].n + 1]))
         ELSE Unmodelled
    ELSE IF f.t = "dict.get"
    THEN IF /\ ~star /\ Len(args) = 1
            /\ args[1] \in {StrV(SafeFunctionsKey), StrV(SafeConstantsKey)}
         THEN Ok(DictV(args[1].s))
         ELSE Unmodelled
    ELSE IF f.t = "dict.clear"
    THEN IF args = <<>> THEN After(Ok(NoneV), {f.s}) ELSE Unmodelled
    ELSE IF f.t \in Reflective THEN Unmodelled
    ELSE IF f.t # "func" THEN Raise("TypeError", <<"object is not callable">>)
    ELSE IF f.s = ImportName
    THEN IF ~star /\ args = <<StrV(FrozenImportlib)>>
         THEN Ok(ModuleV(FrozenImportlib))
         ELSE Unmodelled
    ELSE IF f.s = GetFrameName
    THEN IF ~star /\ args = <<IntV(1)>>
         THEN Ok(FrameV(EvaluateExpressionName))
         ELSE Unmodelled
    ELSE IF f.s \notin {SqrtName, AbsName} THEN Unmodelled
    ELSE IF star \/ Len(args) # 1
    THEN Raise("TypeError", <<"takes exactly one argument">>)
    ELSE IF f.s = SqrtName THEN MathSqrt(args[1])
    ELSE BuiltinAbs(args[1])

(***************************************************************************)
(* The evaluator of eval: the value of an expression in a namespace.       *)
(***************************************************************************)
NameErr(name) == Raise("NameError", <<"name is not defined", name>>)

\* what a step evaluates its operands to, one after the other, is handed
\* on with the dicts emptied so far
RECURSIVE Eval(_, _, _)
Eval(ast, env, free) ==
    CASE ast.k = "num" -> Ok(ast.v)
      [] ast.k = "name" ->
           IF ast.name \in DOMAIN env THEN Ok(env[ast.name])
           ELSE NameErr(ast.name)
      [] ast.k = "tuple0" -> Ok(TupleV)
      [] ast.k = "ellipsis" -> Ok(EllipsisV)
      [] ast.k = "un" ->
           Bind(Eval(ast.e, env, free), LAMBDA e :
             IF e.st # "ok" THEN e
             ELSE After(Unary(ast.op, e.v), e.cleared))
      [] ast.k = "bin" ->
           Bind(Eval(ast.l, env, free), LAMBDA l :
             IF l.st # "ok" THEN l
             ELSE Bind(Eval(ast.r, env, free), LAMBDA r :
                    IF r.st # "ok" THEN After(r, l.cleared)
                    ELSE After(Arith(ast.op, l.v, r.v),
                               l.cleared \cup r.cleared)))
      [] ast.k = "attr" ->
           Bind(Eval(ast.e, env, free), LAMBDA e :
             IF e.st # "ok" THEN e
             ELSE After(GetAttr(e.v, ast.name), e.cleared))
      [] ast.k = "call" ->
           Bind(Eval(ast.f, env, free), LAMBDA f :
             IF f.st # "ok" THEN f
             ELSE IF ast.args = <<>>
             THEN After(Apply(f.v, <<>>, ast.star, free), f.cleared)
             ELSE Bind(Eval(ast.args[1], env, free), LAMBDA a :
                    IF a.st # "ok" THEN After(a, f.cleared)
                    ELSE After(Apply(f.v, <<a.v>>, ast.star, free),
                               f.cleared \cup a.cleared)))

\* eval(expression, globals, {}): tokenize, parse, evaluate
PyEval(expression, env, free) ==
    Bind(Lex(expression, 1), LAMBDA lexed :
      IF lexed.st = "unm" THEN Unmodelled
      ELSE IF lexed.st = "syntax" THEN SyntaxErr
      ELSE Bind(Parse(lexed.toks), LAMBDA tree :
             IF tree.st # "ok" THEN SyntaxErr ELSE Eval(tree.ast, env, free)))

(***************************************************************************)
(* Optional values.                                                        *)
(***************************************************************************)
None == [some |-> FALSE, val |-> <<>>]

Some(x) == [some |-> TRUE, val |-> x]

\* an Optional[int]
NoInt == [some |-> FALSE, val |-> 0]

(***************************************************************************)
(* Formatting the result (calculator_tool, "Format the result").           *)
(***************************************************************************)
\* the first p digits of r/d after the point, and the remainder left
RECURSIVE FracDigits(_, _, _)
FracDigits(r, d, p) ==
    IF p = 0 THEN [digits |-> <<>>, rem |-> r]
    ELSE LET rest == FracDigits((r * 10) % d, d, p - 1)
         IN  [digits |-> <<(r * 10) \div d>> \o rest.digits, rem |-> rest.rem]

\* a digit string plus one: <<carry out, digits>>
RECURSIVE PlusOne(_)
PlusOne(ds) ==
    IF ds = <<>> THEN <<1, <<>>>>
    ELSE LET last == ds[Len(ds)]
             init == SubSeq(ds, 1, Len(ds) - 1)
         IN  IF last < 9 THEN <<0, Append(init, last + 1)>>
             ELSE LET up == PlusOne(init) IN <<up[1], Append(up[2], 0)>>

RECURSIVE DigitChars(_)
DigitChars(ds) ==
    IF ds = <<>> THEN <<>> ELSE <<DigitChar(Head(ds))>> \o DigitChars(Tail(ds))

\* FormatFixed with the fraction dropped: the integer part only
FormatFixedWhole(v, p) ==
    Ok(StrV((IF v.n < 0 THEN <<"-">> ELSE <<>>) \o NatToDigits(Abs(v.n) \div v.d)))

\* f"{v:.{p}f}" of a finite float v for p >= 0: round half to even
FormatFixed(v, p) ==
    LET ip   == Abs(v.n) \div v.d
        fd   == FracDigits(Abs(v.n) % v.d, v.d, p)
        last == IF p = 0 THEN ip % 10 ELSE fd.digits[p]
        tie  == 2 * fd.rem = v.d
        up   == 2 * fd.rem > v.d \/ (tie /\ last % 2 = 1)
        inc  == PlusOne(fd.digits)
        ip2  == IF up THEN ip + inc[1] ELSE ip
        ds   == IF up THEN inc[2] ELSE fd.digits
    IN  IF ~v.x /\ (tie \/ p > 6)
        THEN Unmodelled     \* the float is not the tie, or not that exact
        ELSE Ok(StrV((IF v.n < 0 THEN <<"-">> ELSE <<>>) \o NatToDigits(ip2)
                     \o (IF p = 0 THEN <<>> ELSE <<".">> \o DigitChars(ds))))

\* f"{result:.{precision}f}" of a float
FormatFloat(v, precision) ==
    IF ~precision.some
    THEN Raise("ValueError", <<"Invalid format specifier">>)
    ELSE IF precision.val < 0
    THEN Raise("ValueError", <<"Format specifier missing precision">>)
    ELSE IF v.t = "nan" THEN Ok(StrV(<<"n", "a", "n">>))
    ELSE IF v.t = "inf"
    THEN Ok(StrV((IF v.n < 0 THEN <<"-">> ELSE <<>>) \o <<"i", "n", "f">>))
    ELSE FormatFixed(v, precision.val)

IsIntegerName == <<"i","s","_","i","n","t","e","g","e","r">>

\* str(result) of a value that is no int and no float
StrOf(v) == IF v.t = "str" THEN v.s ELSE <<"str of ", v.t>>

\* lines 121-127: the formatted result, or what the formatting raises;
\* intIsInteger: the interpreter's int has is_integer (Python 3.12 on)
FormatResult(result, precision, intIsInteger) ==
    IF IsNumber(result)
    THEN IF result.t = "int"
         THEN IF intIsInteger THEN Ok(StrV(IntToStr(result.n)))
              ELSE AttributeErr(IsIntegerName)
         ELSE IF result.t = "big" THEN Unmodelled   \* 309 digits
         ELSE IF result.t = "float" /\ result.d = 1
         THEN IF result.x THEN Ok(StrV(IntToStr(result.n))) ELSE Unmodelled
         ELSE FormatFloat(result, precision)
    ELSE Ok(StrV(StrOf(result)))

(***************************************************************************)
(* _evaluate_expression.                                                   *)
(***************************************************************************)
\* the match with a class that leaves out the point
IsSimpleArithmeticNoPoint(expression) ==
    /\ expression # <<>>
    /\ \A i \in 1..Len(expression) :
          expression[i] \in Digits \cup Whitespace \cup
                            {"+", "-", "*", "/", "(", ")"}

\* re.match(r'^[\d\s+\-*/().]+$', expression)
IsSimpleArithmetic(expression) ==
    /\ expression # <<>>
    /\ \A i \in 1..Len(expression) :
          expression[i] \in Digits \cup Whitespace \cup
                            {"+", "-", "*", "/", "(", ")", "."}

\* the pattern ([a-zA-Z_][a-zA-Z0-9_]*)\s*\( matches at position i of s
MatchesAt(s, i) ==
    /\ s[i] \in IdentStartAscii
    /\ CharAt(s, SkipWhile(s, SkipWhile(s, i, IdentContAscii), Whitespace))
          = "("

\* the positions from i on where re.findall finds a match: the leftmost
\* one, then the leftmost one after the end of the match before, so that
\* no match starts inside the name of another
MatchStarts(s, i) ==
    {k \in i..Len(s) :
       /\ MatchesAt(s, k)
       /\ \A j \in i..(k - 1) :
             ~(/\ s[j] \in IdentStartAscii
               /\ \A m \in j..(k - 1) : s[m] \in IdentContAscii)}

\* re.findall(r'([a-zA-Z_][a-zA-Z0-9_]*)\s*\(', expression) from i on:
\* the names matched, in the order of their positions
FindFunctions(s, i) ==
    LET starts == MatchStarts(s, i)
        nth(n) == CHOOSE k \in starts :
                     Cardinality({j \in starts : j < k}) = n - 1
    IN  [n \in 1..Cardinality(starts) |->
           Slice(s, nth(n), SkipWhile(s, nth(n), IdentContAscii) - 1)]

functions_used(expression) == FindFunctions(expression, 1)

\* lines 195-197: the first name used as a function that is not allowed
NotAllowed(names) ==
    SelectSeq(names, LAMBDA n : n \notin DOMAIN _safe_functions)

ValidateFunctions(expression) ==
    LET bad == NotAllowed(functions_used(expression))
    IN  IF bad # <<>>
        THEN Raise("ValueError", <<"Function is not allowed", bad[1]>>)
        ELSE Ok(NoValue)

\* lines 200-202: the namespace of the general path
safe_env(variables) ==
    DictUpdate(DictUpdate(NoBuiltins, _safe_functions), variables)

\* _evaluate_expression(expression, variables): the result, or the raise,
\* in a process whose allocator hands out the block free
_evaluate_expression(expression, variables, free) ==
    IF IsSimpleArithmetic(expression)
    THEN PyEval(expression, NoBuiltins, free)
    ELSE IF ValidateFunctions(expression).st # "ok"
    THEN ValidateFunctions(expression)
    ELSE PyEval(expression, safe_env(variables), free)

(***************************************************************************)
(* calculator_tool, as a function of its input.                            *)
(***************************************************************************)
DefaultPrecision == 6

\* CalculatorInput(**input_data): the defaults of the absent fields
CalculatorInput(input_data) ==
    [expression |-> input_data.expression.val,
     precision  |-> IF input_data.precision.given THEN input_data.precision.opt
                    ELSE [some |-> TRUE, val |-> DefaultPrecision],
     variables  |-> input_data.variables]

\* PrepareVariables with the update turned round: the constants win
PrepareVariablesConstantsFirst(parsed) ==
    IF parsed.variables.some /\ DOMAIN parsed.variables.val # {}
    THEN DictUpdate(parsed.variables.val, _safe_constants)
    ELSE _safe_constants

\* PrepareVariables without the constants once the caller gives variables
PrepareVariablesAlone(parsed) ==
    IF parsed.variables.some /\ DOMAIN parsed.variables.val # {}
    THEN parsed.variables.val
    ELSE _safe_constants

\* lines 108-112
PrepareVariables(parsed) ==
    IF parsed.variables.some /\ DOMAIN parsed.variables.val # {}
    THEN DictUpdate(_safe_constants, parsed.variables.val)
    ELSE _safe_constants

\* CalculatorOutput accepts result: Union[float, int, str]
ValidResult(v) == v.t \in {"int", "float", "inf", "nan", "big", "str"}

(***************************************************************************)
(* The inputs.  An expression is up to MaxPieces pieces of one family; a   *)
(* family also names the precisions and variable mappings it is tried with.*)
(***************************************************************************)
\* the precision field: absent, None, or an int
PrecisionAbsent == [given |-> FALSE, opt |-> NoInt]

PrecisionNone == [given |-> TRUE, opt |-> NoInt]

Precision(n) == [given |-> TRUE, opt |-> [some |-> TRUE, val |-> n]]

\* a variables mapping with one entry, as a float
OneVariable(name, n) == Some(name :> FloatV(n, 1, TRUE))

Family(pieces, precisions, variables) ==
    [pieces |-> pieces, precisions |-> precisions, variables |-> variables]

ArithmeticFamily ==
    Family({<<"2">>, <<"+">>, <<"-">>, <<"*">>, <<"/">>},
           {PrecisionAbsent}, {None})

FloatFamily ==
    Family({<<"1">>, <<"5">>, <<"/">>, <<".">>, <<"i","n","f">>},
           {PrecisionAbsent, Precision(0), Precision(2)}, {None})

SanitizerFamily ==
    Family({<<"2">>, <<"%">>, <<"^">>, <<";">>, <<"*">>},
           {PrecisionAbsent}, {None})

CallFamily ==
    Family({<<"f","o","o">>, <<"s","q","r","t">>, <<"é">>, <<"(">>, <<")">>, <<"4">>},
           {PrecisionAbsent}, {None})

\* a caller's variable in the place of a function: named like a function
\* of the table, or with a name the pattern of line 191 does not match
ShadowFamily ==
    Family({<<"s","q","r","t">>, <<"é">>, <<"x">>, <<"(", "4", ")">>},
           {PrecisionAbsent},
           {OneVariable(<<"s","q","r","t">>, 2), OneVariable(<<"é">>, 1),
            OneVariable(<<"x">>, 1)})

AttributeFamily ==
    Family({<<"p","i">>, <<".">>, <<"r","e","a","l">>, <<"_","_","d","o","c","_","_">>, <<"1">>, <<"i","m","p","o","r","t">>},
           {PrecisionAbsent}, {None})

\* division by zero, a domain error and overflow
FailureFamily ==
    Family({<<"1","e","3","0","8">>, <<"*">>, <<"/">>, <<"0">>,
            <<"s","q","r","t","(","-","1",")">>},
           {PrecisionAbsent}, {None})

\* calls of functions of the table with a number as argument
FunctionFamily ==
    Family({SqrtName \o <<"(">>, AbsName \o <<"(">>, <<"1">>, <<"6">>, <<")">>},
           {PrecisionAbsent}, {None})

\* towers of exponentiation
TowerFamily == Family({<<"2">>, <<"*", "*">>}, {PrecisionAbsent}, {None})

\* caller variables beside the constants, at several precisions
VariableFamily ==
    Family({<<"x">>, <<"p","i">>, <<"+">>},
           {Precision(2), Precision(0), Precision(-1)},
           {None, OneVariable(<<"x">>, 1), OneVariable(<<"p","i">>, 10)})

\* the name __builtins__, which eval finds in its globals, and the number
\* of entries of the dict it names
NamespaceFamily ==
    Family({<<"(">>, BuiltinsKey \o <<".">> \o LenName, <<")", "(", ")">>,
            <<"*", "1", ".", "0">>},
           {PrecisionAbsent}, {None})

\* ((().__class__.__base__)().__hash__)(): the hash of a new object()
HashOfNewObject ==
    <<"(", "(", "(", ")", ".">> \o ClassName \o <<".">> \o BaseName
      \o <<")", "(", ")", ".">> \o HashName \o <<")", "(", ")">>

\* the calls of a process that serves one call after another
SessionFamily ==
    Family({HashOfNewObject, <<"*","1",".","0">>, <<"1","/","2">>,
            <<"4","/","2">>},
           {Precision(-1), Precision(0)}, {None})

\* abs.__self__: the module builtins, reached from a function of the table
AbsSelf == AbsName \o <<".">> \o SelfName

\* (abs.__self__.__import__)(abs.__self__.__loader__.__module__): the
\* module _frozen_importlib, imported under the name its loader class
\* gives as its module; a string literal would not pass the sanitizer
ImportFrozen ==
    <<"(">> \o AbsSelf \o <<".">> \o ImportName \o <<")", "(">>
      \o AbsSelf \o <<".">> \o LoaderName \o <<".">> \o ModuleName
      \o <<")">>

\* (<ImportFrozen>.sys._getframe)(1): the frame of the caller of eval,
\* _evaluate_expression
CallerFrame ==
    <<"(">> \o ImportFrozen \o <<".">> \o SysName \o <<".">> \o GetFrameName
      \o <<")", "(", "1", ")">>

\* ((<CallerFrame>.f_globals.get)((<CallerFrame>.f_code.co_names
\* .__getitem__)(k)).clear)(): the global of the module that
\* _evaluate_expression names k-th, emptied; no name of the expression
\* stands before a '(', so the pattern of line 191 finds no function
ClearGlobal(k) ==
    <<"(", "(">> \o CallerFrame \o <<".">> \o FGlobalsName \o <<".">> \o GetName
      \o <<")", "(", "(">> \o CallerFrame \o <<".">> \o FCodeName \o <<".">>
      \o CoNamesName \o <<".">> \o GetItemName \o <<")", "(">> \o k
      \o <<")", ")", ".">> \o ClearName \o <<")", "(", ")">>

\* the expressions that reach outside the namespace
ReflectionExpressions == {ClearGlobal(<<"5">>)}

\* an input_data without the required field 'expression'
MissingExpression ==
    [expression |-> None, precision |-> PrecisionAbsent, variables |-> None]

\* the result of the call's evaluation and formatting is modelled
Modelled(input_data) ==
    \E parsed \in {CalculatorInput(input_data)} :
    \E value \in {_evaluate_expression(_clean_expression(parsed.expression),
                                       PrepareVariables(parsed), 0)} :
        /\ value.st # "unm"
        /\ value.st = "ok" =>
             FormatResult(value.v, parsed.precision, TRUE).st # "unm"

Families ==
    {ArithmeticFamily, FloatFamily, SanitizerFamily, CallFamily,
     AttributeFamily, FailureFamily, FunctionFamily, TowerFamily,
     VariableFamily, NamespaceFamily, ShadowFamily}

\* the pieces an expression of the family has at most: one fewer where the
\* family has the most pieces to choose from
Longest(f) ==
    IF f \in {CallFamily, AttributeFamily} THEN MaxPieces - 1 ELSE MaxPieces

\* the input_data with the pieces ps as expression
InputData(ps, precision, variables) ==
    [expression |-> Some(Flatten(ps)), precision |-> precision,
     variables |-> variables]

(***************************************************************************)
(* The state of one call of calculator_tool, and of the process around it. *)
(***************************************************************************)
VARIABLES
    heap,              \* the block the allocator of the process hands out next
    previous,          \* the call the process served before this one
    int_is_integer,    \* the interpreter's int has is_integer: Python 3.12
                       \* on; setup.py asks for python_requires >= 3.9
    input_data,        \* the argument of the call
    pc,                \* where the call is
    parsed_input,      \* CalculatorInput(**input_data)
    variables,         \* the local dict variables
    expression,        \* the cleaned expression
    result,            \* the value eval returned
    steps,             \* the list steps of _evaluate_expression
    formatted_result,  \* the local formatted_result
    exception,         \* the exception raised inside the try block
    eval_calls,        \* the texts handed to eval so far
    returned,          \* the record the call returned
    fault              \* the exception that left the call

\* The other parts of the server, each with a state of its own.
VARIABLES
    weather,           \* a call of weather_tool: its locals and where it is
    registry,          \* the registries of tools and resources, and the
                       \* server that registers what is enabled
    context,           \* a Context: its cache and the calls made on it
    configuration      \* a call of load_config: the files and environment
                       \* it finds, its local config and where it is

services == <<weather, registry, context, configuration>>

\* a call of weather_tool that has not begun
WeatherIdle == [pc |-> "idle"]

\* no other part of the server is at work
\* the server has not been constructed
RegistryIdle == [pc |-> "idle"]

\* no Context has been made
ContextIdle == [pc |-> "idle"]

\* load_config has not been called
ConfigurationIdle == [pc |-> "idle"]

ServicesIdle ==
    /\ weather = WeatherIdle
    /\ registry = RegistryIdle
    /\ context = ContextIdle
    /\ configuration = ConfigurationIdle

vars == <<services, tables, heap, previous, int_is_integer, input_data, pc, parsed_input,
          variables, expression,
          result, steps, formatted_result, exception, eval_calls, returned,
          fault>>

NoParsedInput ==
    [expression |-> <<>>, precision |-> NoInt, variables |-> None]

Step(text, expr, value) == [text |-> text, expr |-> expr, value |-> value]

\* CalculatorOutput(...).dict()
CalculatorOutput(res, formatted, stepList, error) ==
    [result |-> res, formatted_result |-> formatted, steps |-> stepList,
     error |-> error]

ErrorMarker == StrV(<<"E","r","r","o","r">>)

NoOutput == CalculatorOutput(NoValue, <<>>, None, None)

\* lines 53-91: the module has been loaded
ModuleLoaded ==
    /\ _safe_functions = LoadedFunctions
    /\ _safe_constants = LoadedConstants

\* the locals of a call that has just been entered
EnterCall ==
    /\ pc = "call"
    /\ parsed_input = NoParsedInput
    /\ variables = EmptyDict
    /\ expression = <<>>
    /\ result = NoValue
    /\ steps = <<>>
    /\ formatted_result = <<>>
    /\ exception = NoExc
    /\ eval_calls = <<>>
    /\ returned = NoOutput
    /\ fault = NoExc

\* the first call of a process, its input_data one of the families
Init ==
    /\ ServicesIdle
    /\ ModuleLoaded
    /\ heap = 0
    /\ previous = None
    /\ \/ input_data = MissingExpression
       \/ \E e \in ReflectionExpressions :
             /\ input_data = InputData(<<e>>, PrecisionAbsent, None)
             /\ Modelled(input_data)
       \/ \E f \in Families : \E k \in 0..Longest(f) :
             \E ps \in SeqsOf(f.pieces, k) :
               \E p \in f.precisions : \E v \in f.variables :
                 /\ input_data = InputData(ps, p, v)
                 /\ Modelled(input_data)
    /\ int_is_integer \in BOOLEAN
    /\ EnterCall

\* an exception inside the try block: control goes to the except clause
RaiseInTry(exc) ==
    /\ exception' = exc
    /\ pc' = "except"

\* line 104, outside the try block: a validation error leaves the call
ParseInput ==
    /\ pc = "call"
    /\ IF input_data.expression.some
       THEN /\ parsed_input' = CalculatorInput(input_data)
            /\ pc' = "prepare"
            /\ fault' = fault
       ELSE /\ fault' = Exc("ValidationError", <<"expression: field required">>)
            /\ pc' = "raised"
            /\ parsed_input' = parsed_input
    /\ UNCHANGED <<services, tables, heap, previous, int_is_integer,
                   input_data, variables, expression, result,
                   steps, formatted_result, exception, eval_calls, returned>>

\* lines 108-112
PrepareVars ==
    /\ pc = "prepare"
    /\ variables' = PrepareVariables(parsed_input)
    /\ pc' = "clean"
    /\ UNCHANGED <<services, tables, heap, previous, int_is_integer,
                   input_data, parsed_input, expression,
                   result, steps, formatted_result, exception, eval_calls,
                   returned, fault>>

\* line 115
CleanExpression ==
    /\ pc = "clean"
    /\ expression' = _clean_expression(parsed_input.expression)
    /\ pc' = "evaluate"
    /\ UNCHANGED <<services, tables, heap, previous, int_is_integer,
                   input_data, parsed_input, variables,
                   result, steps, formatted_result, exception, eval_calls,
                   returned, fault>>

\* eval(text, env, {}) at `stage`, with the step recorded before it
EvalStep(text, env, what) ==
    \E value \in {PyEval(text, env, heap)} :
        /\ eval_calls' = Append(eval_calls, text)
        /\ _safe_functions' = IF SafeFunctionsKey \in value.cleared
                              THEN EmptyDict ELSE _safe_functions
        /\ _safe_constants' = IF SafeConstantsKey \in value.cleared
                              THEN EmptyDict ELSE _safe_constants
        /\ IF value.st = "ok"
           THEN /\ result' = value.v
                /\ steps' = <<Step(what, text, NoValue),
                              Step("Result: ", <<>>, value.v)>>
                /\ pc' = "format"
                /\ exception' = exception
           ELSE /\ steps' = <<Step(what, text, NoValue)>>
                /\ result' = result
                /\ RaiseInTry(value.exc)

\* lines 183-188: simple arithmetic, evaluated with no names
EvalArithmetic ==
    /\ pc = "evaluate"
    /\ IsSimpleArithmetic(expression)
    /\ EvalStep(expression, NoBuiltins, "Evaluating arithmetic expression: ")
    /\ UNCHANGED <<services, heap, previous, int_is_integer,
                   input_data, parsed_input, variables,
                   expression, formatted_result, returned, fault>>

\* the step with the loop of lines 195-197 left out: every expression goes
\* on to eval
CheckFunctionsSkipped ==
    /\ pc = "evaluate"
    /\ ~IsSimpleArithmetic(expression)
    /\ pc' = "eval"
    /\ UNCHANGED <<services, tables, heap, previous, int_is_integer,
                   input_data, parsed_input, variables,
                   expression, result, steps, formatted_result, exception,
                   eval_calls, returned, fault>>

\* lines 190-197: the names used as functions are checked
CheckFunctions ==
    /\ pc = "evaluate"
    /\ ~IsSimpleArithmetic(expression)
    /\ LET valid == ValidateFunctions(expression)
       IN  IF valid.st = "ok"
           THEN pc' = "eval" /\ exception' = exception
           ELSE RaiseInTry(valid.exc)
    /\ UNCHANGED <<services, tables, heap, previous, int_is_integer,
                   input_data, parsed_input, variables,
                   expression, result, steps, formatted_result, eval_calls,
                   returned, fault>>

\* lines 199-209: the expression is evaluated in the safe environment
EvalExpression ==
    /\ pc = "eval"
    /\ EvalStep(expression, safe_env(variables), "Evaluating expression: ")
    /\ UNCHANGED <<services, heap, previous, int_is_integer,
                   input_data, parsed_input, variables,
                   expression, formatted_result, returned, fault>>

\* lines 120-127
Format ==
    /\ pc = "format"
    /\ \E f \in {FormatResult(result, parsed_input.precision, int_is_integer)} :
           IF f.st = "ok"
           THEN /\ formatted_result' = f.v.s
                /\ pc' = "output"
                /\ exception' = exception
           ELSE /\ formatted_result' = formatted_result
                /\ RaiseInTry(f.exc)
    /\ UNCHANGED <<services, tables, heap, previous, int_is_integer,
                   input_data, parsed_input, variables,
                   expression, result, steps, eval_calls, returned, fault>>

\* lines 129-135: the output model validates the result, then is returned
BuildOutput ==
    /\ pc = "output"
    /\ IF ValidResult(result)
       THEN /\ returned' = CalculatorOutput(result, formatted_result,
                                            Some(steps), None)
            /\ pc' = "returned"
            /\ exception' = exception
       ELSE /\ returned' = returned
            /\ RaiseInTry(Exc("ValidationError", <<"result: invalid value">>))
    /\ UNCHANGED <<services, tables, heap, previous, int_is_integer,
                   input_data, parsed_input, variables,
                   expression, result, steps, formatted_result, eval_calls,
                   fault>>

\* lines 136-146: the except clause returns the error record
HandleException ==
    /\ pc = "except"
    /\ returned' = CalculatorOutput(ErrorMarker, ErrorMarker.s, None,
                                    Some(exception.msg))
    /\ pc' = "returned"
    /\ UNCHANGED <<services, tables, heap, previous, int_is_integer,
                   input_data, parsed_input, variables,
                   expression, result, steps, formatted_result, exception,
                   eval_calls, fault>>

\* the input_data of the calls of such a process; each is Modelled
SessionInputs ==
    {InputData(ps, p, None) :
       ps \in UNION {SeqsOf(SessionFamily.pieces, k) : k \in 0..MaxCallPieces},
       p \in SessionFamily.precisions}

\* The process serves its next call once this one has returned or raised.
\* calculator_tool is a coroutine without an await, so calls never
\* interleave; the records of finished calls may still be held by their
\* callers, and the allocator places new objects accordingly.
NextCall ==
    /\ pc \in {"returned", "raised"}
    /\ previous' = Some([input_data |-> input_data, returned |-> returned,
                         fault |-> fault, first |-> ~previous.some])
    /\ heap' \in 0..MaxHeld
    /\ input_data' \in SessionInputs
    /\ pc' = "call"
    /\ parsed_input' = NoParsedInput
    /\ variables' = EmptyDict
    /\ expression' = <<>>
    /\ result' = NoValue
    /\ steps' = <<>>
    /\ formatted_result' = <<>>
    /\ exception' = NoExc
    /\ eval_calls' = <<>>
    /\ returned' = NoOutput
    /\ fault' = NoExc
    /\ UNCHANGED <<services, tables, int_is_integer>>

Next ==
    \/ ParseInput
    \/ PrepareVars
    \/ CleanExpression
    \/ EvalArithmetic
    \/ CheckFunctions
    \/ EvalExpression
    \/ Format
    \/ BuildOutput
    \/ HandleException

Spec == Init /\ [][Next]_vars

\* a process that serves one call after another
InitCalls ==
    /\ ServicesIdle
    /\ ModuleLoaded
    /\ heap = 0
    /\ previous = None
    /\ input_data \in SessionInputs
    /\ int_is_integer \in BOOLEAN
    /\ EnterCall

NextCalls == Next \/ NextCall

SpecCalls == InitCalls /\ [][NextCalls]_vars

(***************************************************************************)
(* The calculator while another part of the server is at work.             *)
(***************************************************************************)
calculator ==
    <<tables, heap, previous, int_is_integer, input_data, pc, parsed_input,
      variables, expression, result, steps, formatted_result, exception,
      eval_calls, returned, fault>>

\* the module is loaded and no call of calculator_tool has been made
CalculatorIdle ==
    /\ ModuleLoaded
    /\ heap = 0
    /\ previous = None
    /\ input_data = MissingExpression
    /\ int_is_integer = TRUE
    /\ EnterCall

(***************************************************************************)
(* weather_tool (tools/weather.py).  Temperatures are in tenths of a       *)
(* degree; a date is the number of days from today.                        *)
(***************************************************************************)
\* an Optional[int] field: absent from the input, None, or an int
DaysAbsent == [given |-> FALSE, opt |-> NoInt]

DaysNone == [given |-> TRUE, opt |-> NoInt]

Days(n) == [given |-> TRUE, opt |-> [some |-> TRUE, val |-> n]]

\* WeatherInput(**input_data): the defaults of the absent fields
WeatherInput(i) ==
    [location |-> i.location.val,
     units    |-> IF i.units.some THEN i.units.val ELSE "metric",
     days     |-> IF i.days.given THEN i.days.opt
                  ELSE [some |-> TRUE, val |-> 1]]

\* WeatherDay: the fields that tell one day from another
WeatherDay(date, current, main, humidity) ==
    [date |-> date, current |-> current, main |-> main, humidity |-> humidity]

\* WeatherOutput(...).dict()
WeatherOutput(location, country, units, current, forecast) ==
    [location |-> location, country |-> country, units |-> units,
     current |-> current, forecast |-> forecast]

Min(a, b) == IF a <= b THEN a ELSE b

\* `days and days > 1`
ForecastRequested(parsed) == parsed.days.some /\ parsed.days.val > 1

\* lines 311-336: the days 1 .. min(days, 7) - 1 of the mock forecast
MockForecast(days) ==
    [i \in 1..(Min(days, 7) - 1) |->
       WeatherDay(i, 220 + 10 * i, IF i % 2 = 0 THEN "Clear" ELSE "Clouds",
                  65 - i)]

\* _get_mock_weather(input_data)
_get_mock_weather(parsed) ==
    WeatherOutput(parsed.location, "US", parsed.units,
                  WeatherDay(0, 225, "Clear", 65),
                  IF ForecastRequested(parsed)
                  THEN Some(MockForecast(parsed.days.val)) ELSE None)

\* what the API answers to a request for the current weather: the name
\* and country it knows the place by, and the day
ApiPlaces == {[name |-> "Paris", country |-> "FR"],
              [name |-> "London", country |-> "GB"]}

ApiDays == {WeatherDay(0, 180, "Rain", 80), WeatherDay(0, 301, "Clear", 40)}

\* lines 173-179: the record _get_current_weather builds from an answer
CurrentWeather(place, units, day) ==
    WeatherOutput(place.name, place.country, units, day, None)

\* the forecasts _get_forecast can return for `days` days: the API has data
\* for no day, or for each of up to five days
ApiForecasts(days) ==
    {<<>>, [i \in 1..Min(days, 5) |-> WeatherDay(i, 200 + i, "Clouds", 70)]}

\* what a request can raise: the transport fails, the status is an error,
\* the answer lacks a field
FetchErrors ==
    {Exc("ConnectError", <<"connection failed">>),
     Exc("HTTPStatusError", <<"401 Unauthorized">>),
     Exc("KeyError", <<"main">>)}

\* the input_data of the calls: with and without the required location,
\* and with the days that take each branch of lines 104 and 309-311
WeatherLocations == {None, Some("Paris"), Some("nowhere")}

WeatherUnits == {None, Some("imperial")}

WeatherDaysGiven == {DaysAbsent, DaysNone, Days(0), Days(1), Days(2), Days(9)}

\* os.environ.get("OPENWEATHER_API_KEY"): unset, empty, or a key
ApiKeys == {None, Some(""), Some("0123456789abcdef")}

\* a call of weather_tool has been made with input_data, in an environment
\* with OPENWEATHER_API_KEY = key
WeatherCalled(i, key) ==
    [pc |-> "call", input_data |-> i, environ |-> key,
     parsed_input |-> None, api_key |-> None,
     current_weather |-> None, forecast |-> None,
     fetched |-> FALSE, exception |-> NoExc, returned |-> None,
     fault |-> NoExc]

InitWeather ==
    /\ CalculatorIdle
    /\ registry = RegistryIdle
    /\ context = ContextIdle
    /\ configuration = ConfigurationIdle
    /\ \E l \in WeatherLocations : \E u \in WeatherUnits :
         \E d \in WeatherDaysGiven : \E key \in ApiKeys :
           weather = WeatherCalled([location |-> l, units |-> u, days |-> d],
                                   key)

\* line 86, outside the try block: a validation error leaves the call
WeatherParseInput ==
    /\ weather.pc = "call"
    /\ weather' =
         IF weather.input_data.location.some
         THEN [weather EXCEPT
                 !.parsed_input = Some(WeatherInput(weather.input_data)),
                 !.pc = "key"]
         ELSE [weather EXCEPT
                 !.fault = Exc("ValidationError", <<"location: field required">>),
                 !.pc = "raised"]
    /\ UNCHANGED <<calculator, registry, context, configuration>>

\* lines 90-94: without a key the mock data is returned
WeatherReadKey ==
    /\ weather.pc = "key"
    /\ weather' =
         IF weather.environ.some /\ weather.environ.val # ""
         THEN [weather EXCEPT !.api_key = weather.environ, !.pc = "current"]
         ELSE [weather EXCEPT
                 !.api_key = weather.environ,
                 !.returned = Some(_get_mock_weather(weather.parsed_input.val)),
                 !.pc = "returned"]
    /\ UNCHANGED <<calculator, registry, context, configuration>>

\* lines 98-100: the current weather is fetched, or the request raises
GetCurrentWeather ==
    /\ weather.pc = "current"
    /\ \/ \E place \in ApiPlaces : \E day \in ApiDays :
            weather' =
              [weather EXCEPT
                 !.current_weather =
                    Some(CurrentWeather(place, weather.parsed_input.val.units,
                                        day)),
                 !.pc = "forecast"]
       \/ \E e \in FetchErrors :
            weather' = [weather EXCEPT !.exception = e, !.pc = "except"]
    /\ UNCHANGED <<calculator, registry, context, configuration>>

\* lines 103-107: the forecast is fetched when more than one day is asked
\* for, or the request raises
GetForecast ==
    /\ weather.pc = "forecast"
    /\ IF ForecastRequested(weather.parsed_input.val)
       THEN \/ \E f \in ApiForecasts(weather.parsed_input.val.days.val) :
                 weather' = [weather EXCEPT !.forecast = Some(f),
                                            !.fetched = TRUE,
                                            !.pc = "return"]
            \/ \E e \in FetchErrors :
                 weather' = [weather EXCEPT !.exception = e, !.pc = "except"]
       ELSE weather' = [weather EXCEPT !.pc = "return"]
    /\ UNCHANGED <<calculator, registry, context, configuration>>

\* the return of line 109 with the forecast put into the record
WeatherReturnWithForecast ==
    /\ weather.pc = "return"
    /\ weather' =
         [weather EXCEPT
            !.returned = Some([weather.current_weather.val EXCEPT
                                 !.forecast = weather.forecast]),
            !.pc = "returned"]
    /\ UNCHANGED <<calculator, registry, context, configuration>>

\* line 109: the record of the current weather is returned
WeatherReturn ==
    /\ weather.pc = "return"
    /\ weather' = [weather EXCEPT !.returned = weather.current_weather,
                                  !.pc = "returned"]
    /\ UNCHANGED <<calculator, registry, context, configuration>>

\* lines 110-116: the except clause returns the mock data
WeatherExcept ==
    /\ weather.pc = "except"
    /\ weather' =
         [weather EXCEPT
            !.returned = Some(_get_mock_weather(weather.parsed_input.val)),
            !.pc = "returned"]
    /\ UNCHANGED <<calculator, registry, context, configuration>>

NextWeather ==
    \/ WeatherParseInput
    \/ WeatherReadKey
    \/ GetCurrentWeather
    \/ GetForecast
    \/ WeatherReturn
    \/ WeatherExcept

SpecWeather == InitWeather /\ [][NextWeather]_vars

(***************************************************************************)
(* The registries of tools and resources (tools/__init__.py,               *)
(* resources/__init__.py) and their registration by the server             *)
(* (server.py).                                                            *)
(***************************************************************************)
\* tools/__init__.py, lines 20-36
_TOOLS ==
    ("echo" :> [function |-> "echo_tool", name |-> "echo"]) @@
    ("weather" :> [function |-> "weather_tool", name |-> "weather"]) @@
    ("calculator" :> [function |-> "calculator_tool", name |-> "calculator"])

\* resources/__init__.py, lines 22-25: name -> class
_RESOURCES ==
    ("system_info" :> "SystemInfoResource") @@
    ("documentation" :> "DocumentationResource")

\* resource_class(): the k-th instance made; name is the class attribute
Instance(class, k) ==
    [class |-> class, instance |-> k,
     name |-> IF class = "SystemInfoResource" THEN "system_info"
              ELSE "documentation"]

\* the names config.tools_enabled and config.resources_enabled may hold:
\* those of the registries and one that is in neither
ToolNames == DOMAIN _TOOLS \cup {"shell"}

ResourceNames == DOMAIN _RESOURCES \cup {"secrets"}

\* AytchMCPServer.__init__ has reached line 83
ServerConstructed(tools_enabled, resources_enabled) ==
    [pc |-> "get_resources", _TOOLS |-> _TOOLS, _RESOURCES |-> _RESOURCES,
     tools_enabled |-> tools_enabled,
     resources_enabled |-> resources_enabled,
     n |-> 1, resources |-> <<>>, tools |-> <<>>,
     mcp_resources |-> <<>>, mcp_tools |-> <<>>]

InitRegistry ==
    /\ CalculatorIdle
    /\ weather = WeatherIdle
    /\ context = ContextIdle
    /\ configuration = ConfigurationIdle
    /\ \E k \in 0..MaxEnabled : \E t \in SeqsOf(ToolNames, k) :
         \E j \in 0..(MaxEnabled - 1) : \E r \in SeqsOf(ResourceNames, j) :
           registry = ServerConstructed(t, r)

\* resources/__init__.py, lines 48-55: one turn of the loop of
\* get_resources, or its return
GetResources ==
    /\ registry.pc = "get_resources"
    /\ registry' =
         IF registry.n > Len(registry.resources_enabled)
         THEN [registry EXCEPT !.pc = "add_resource", !.n = 1]
         ELSE IF registry.resources_enabled[registry.n]
                    \in DOMAIN registry._RESOURCES
         THEN [registry EXCEPT
                 !.resources =
                    Append(@, Instance(registry._RESOURCES[
                                         registry.resources_enabled[registry.n]],
                                       Len(registry.resources) + 1)),
                 !.n = @ + 1]
         ELSE [registry EXCEPT !.n = @ + 1]
    /\ UNCHANGED <<calculator, weather, context, configuration>>

\* server.py, lines 94-96: one turn of the loop of _register_resources
AddResource ==
    /\ registry.pc = "add_resource"
    /\ registry' =
         IF registry.n > Len(registry.resources)
         THEN [registry EXCEPT !.pc = "get_tools", !.n = 1]
         ELSE [registry EXCEPT
                 !.mcp_resources = Append(@, registry.resources[registry.n]),
                 !.n = @ + 1]
    /\ UNCHANGED <<calculator, weather, context, configuration>>

\* the loop of get_tools taking a tool once only
GetToolsOnce ==
    /\ registry.pc = "get_tools"
    /\ registry' =
         IF registry.n > Len(registry.tools_enabled)
         THEN [registry EXCEPT !.pc = "add_tool", !.n = 1]
         ELSE IF /\ registry.tools_enabled[registry.n] \in DOMAIN registry._TOOLS
                 /\ \A k \in 1..Len(registry.tools) :
                       registry.tools[k].name
                         # registry.tools_enabled[registry.n]
         THEN [registry EXCEPT
                 !.tools = Append(@, registry._TOOLS[
                                       registry.tools_enabled[registry.n]]),
                 !.n = @ + 1]
         ELSE [registry EXCEPT !.n = @ + 1]
    /\ UNCHANGED <<calculator, weather, context, configuration>>

\* tools/__init__.py, lines 59-65: one turn of the loop of get_tools, or
\* its return
GetTools ==
    /\ registry.pc = "get_tools"
    /\ registry' =
         IF registry.n > Len(registry.tools_enabled)
         THEN [registry EXCEPT !.pc = "add_tool", !.n = 1]
         ELSE IF registry.tools_enabled[registry.n] \in DOMAIN registry._TOOLS
         THEN [registry EXCEPT
                 !.tools = Append(@, registry._TOOLS[
                                       registry.tools_enabled[registry.n]]),
                 !.n = @ + 1]
         ELSE [registry EXCEPT !.n = @ + 1]
    /\ UNCHANGED <<calculator, weather, context, configuration>>

\* server.py, lines 101-107: one turn of the loop of _register_tools
AddTool ==
    /\ registry.pc = "add_tool"
    /\ registry' =
         IF registry.n > Len(registry.tools)
         THEN [registry EXCEPT !.pc = "registered"]
         ELSE [registry EXCEPT
                 !.mcp_tools = Append(@, registry.tools[registry.n]),
                 !.n = @ + 1]
    /\ UNCHANGED <<calculator, weather, context, configuration>>

NextRegistry ==
    \/ GetResources
    \/ AddResource
    \/ GetTools
    \/ AddTool

SpecRegistry == InitRegistry /\ [][NextRegistry]_vars

(***************************************************************************)
(* The cache of a Context (context.py).  calls is the history of the       *)
(* cache_ calls made on the Context, the last of them with what it         *)
(* returned and the cache it found.                                        *)
(***************************************************************************)
CacheKeys == {"a", "b"}

\* the values cached, None among them, and the defaults of cache_get
CacheValues == {"None", "v", "w"}

CacheDefaults == {"None", "d"}

\* a call of the method op
CacheCall(op, key, arg) == [op |-> op, key |-> key, arg |-> arg]

\* dict.get(key, default)
DictGet(d, key, default) == IF key \in DOMAIN d THEN d[key] ELSE default

\* d[key] = value
DictSet(d, key, value) ==
    [k \in DOMAIN d \cup {key} |-> IF k = key THEN value ELSE d[k]]

\* del d[key]
DictDel(d, key) == [k \in DOMAIN d \ {key} |-> d[k]]

\* lines 28-40: a new Context
InitContext ==
    /\ CalculatorIdle
    /\ weather = WeatherIdle
    /\ registry = RegistryIdle
    /\ configuration = ConfigurationIdle
    /\ context = [pc |-> "ready", _cache |-> [k \in {} |-> "None"],
                  calls |-> <<>>, before |-> [k \in {} |-> "None"],
                  returned |-> "None", raised |-> NoExc]

\* the call c was made, left the cache as `after`, and returned value or
\* raised exc
Called(c, after, value, exc) ==
    /\ context' = [context EXCEPT !._cache = after,
                                  !.calls = Append(@, c),
                                  !.before = context._cache,
                                  !.returned = value,
                                  !.raised = exc,
                                  !.pc = IF exc = NoExc THEN "ready"
                                         ELSE "raised"]
    /\ UNCHANGED <<calculator, weather, registry, configuration>>

\* lines 277-288
cache_get ==
    /\ context.pc = "ready" /\ Len(context.calls) < MaxOps
    /\ \E key \in CacheKeys : \E default \in CacheDefaults :
         Called(CacheCall("cache_get", key, default), context._cache,
                DictGet(context._cache, key, default), NoExc)

\* lines 290-298
cache_set ==
    /\ context.pc = "ready" /\ Len(context.calls) < MaxOps
    /\ \E key \in CacheKeys : \E value \in CacheValues :
         Called(CacheCall("cache_set", key, value),
                DictSet(context._cache, key, value), "None", NoExc)

\* cache_delete without the test of line 307
cache_delete_unguarded ==
    /\ context.pc = "ready" /\ Len(context.calls) < MaxOps
    /\ \E key \in CacheKeys :
         IF key \in DOMAIN context._cache
         THEN Called(CacheCall("cache_delete", key, "None"),
                     DictDel(context._cache, key), "None", NoExc)
         ELSE Called(CacheCall("cache_delete", key, "None"),
                     context._cache, "None", Exc("KeyError", <<key>>))

\* lines 300-308
cache_delete ==
    /\ context.pc = "ready" /\ Len(context.calls) < MaxOps
    /\ \E key \in CacheKeys :
         Called(CacheCall("cache_delete", key, "None"),
                IF key \in DOMAIN context._cache
                THEN DictDel(context._cache, key) ELSE context._cache,
                "None", NoExc)

NextContext ==
    \/ cache_get
    \/ cache_set
    \/ cache_delete

SpecContext == InitContext /\ [][NextContext]_vars

(***************************************************************************)
(* load_config (config.py).  A JSON object is a function from the keys it  *)
(* holds; a file or an environment variable is absent or has a content.    *)
(***************************************************************************)
Absent == [present |-> FALSE]

Present(content) == [present |-> TRUE, content |-> content]

\* lines 22-38, 41-73, 76-92: the defaults of the fields of a section
BrandingConfig == [name |-> "Aytch4K MCP", primary_color |-> "#4A90E2"]

LLMConfig == [provider |-> "openai", model |-> "gpt-4"]

ServerConfig ==
    [host |-> "0.0.0.0", port |-> 8000, log_level |-> "INFO", debug |-> FALSE]

\* Section.model_validate(object): the fields the object holds, and the
\* defaults of the others
ModelValidate(defaults, object) ==
    [f \in DOMAIN defaults |->
       IF f \in DOMAIN object THEN object[f] ELSE defaults[f]]

NoObject == [f \in {} |-> ""]

\* lines 95-108 and line 140: MCPConfig.model_validate(object)
MCPConfig(object) ==
    [branding |-> ModelValidate(BrandingConfig,
                                IF "branding" \in DOMAIN object
                                THEN object.branding ELSE NoObject),
     llm      |-> ModelValidate(LLMConfig,
                                IF "llm" \in DOMAIN object
                                THEN object.llm ELSE NoObject),
     server   |-> ModelValidate(ServerConfig,
                                IF "server" \in DOMAIN object
                                THEN object.server ELSE NoObject)]

\* int(s) of a string of the environment
IntOfString(s) ==
    IF s # <<>> /\ \A k \in 1..Len(s) : s[k] \in Digits
    THEN Ok(IntV(DigitsToNat(s, 0)))
    ELSE Raise("ValueError", <<"invalid literal for int() with base 10", s>>)

\* str.lower() of the strings DEBUG is set to
Lower(s) ==
    CASE s = "TRUE" -> "true"
      [] s = "Yes" -> "yes"
      [] s = "NO" -> "no"
      [] OTHER -> s

\* the contents of the files of the directory
MainFiles ==
    {Absent, Present(NoObject),
     Present([server |-> [port |-> 9000, debug |-> TRUE]]),
     Present([branding |-> [name |-> "Main"], llm |-> [model |-> "m"],
              server |-> [host |-> "main.example", port |-> 9000]])}

BrandingFiles == {Absent, Present(NoObject), Present([primary_color |-> "#000000"])}

LLMFiles == {Absent, Present([provider |-> "anthropic"])}

ServerFiles ==
    {Absent, Present(NoObject), Present([host |-> "server.example"]),
     Present([port |-> 7000, log_level |-> "WARNING"])}

\* the environment
HostsSet == {Absent, Present("env.example")}

PortsSet == {Absent, Present(<<"9", "0", "0", "1">>), Present(<<"h", "t", "t", "p">>)}

LogLevelsSet == {Absent, Present("DEBUG")}

DebugsSet == {Absent, Present("TRUE"), Present("1"), Present("NO")}

\* load_config has been called: what config_path is, the files and the
\* environment
LoadCalled(kind, main, branding, llm, server, environ) ==
    [pc |-> "default", path |-> kind,
     files |-> [main |-> main, branding |-> branding, llm |-> llm,
                server |-> server],
     environ |-> environ, config |-> MCPConfig(NoObject),
     returned |-> FALSE, fault |-> NoExc]

InitConfiguration ==
    /\ CalculatorIdle
    /\ weather = WeatherIdle
    /\ registry = RegistryIdle
    /\ context = ContextIdle
    /\ \E kind \in {"dir", "file", "none"} :
       \E main \in MainFiles : \E branding \in BrandingFiles :
       \E llm \in LLMFiles : \E server \in ServerFiles :
       \E host \in HostsSet : \E port \in PortsSet :
       \E level \in LogLevelsSet : \E debug \in DebugsSet :
         /\ kind = "file" => main.present
         /\ kind # "dir" =>
              branding = Absent /\ llm = Absent /\ server = Absent
         /\ kind = "none" => main = Absent
         /\ configuration =
              LoadCalled(kind, main, branding, llm, server,
                         [MCP_HOST |-> host, MCP_PORT |-> port,
                          LOG_LEVEL |-> level, DEBUG |-> debug])

\* the step of load_config at `at` leaves config as c and goes on to `to`
ConfigStep(at, c, to) ==
    /\ configuration.pc = at
    /\ configuration' = [configuration EXCEPT !.config = c, !.pc = to]
    /\ UNCHANGED <<calculator, weather, registry, context>>

\* lines 125-134 and 162: the defaults, and what config_path is
LoadDefault ==
    ConfigStep("default", MCPConfig(NoObject),
               IF configuration.path = "dir" THEN "main"
               ELSE IF configuration.path = "file" THEN "file"
               ELSE "environ")

\* lines 136-140: config.json replaces the whole configuration
LoadMain ==
    ConfigStep("main",
               IF configuration.files.main.present
               THEN MCPConfig(configuration.files.main.content)
               ELSE configuration.config,
               "branding")

\* lines 143-147
LoadBranding ==
    ConfigStep("branding",
               IF configuration.files.branding.present
               THEN [configuration.config EXCEPT
                       !.branding =
                          ModelValidate(BrandingConfig,
                                        configuration.files.branding.content)]
               ELSE configuration.config,
               "llm")

\* lines 150-154
LoadLLM ==
    ConfigStep("llm",
               IF configuration.files.llm.present
               THEN [configuration.config EXCEPT
                       !.llm = ModelValidate(LLMConfig,
                                             configuration.files.llm.content)]
               ELSE configuration.config,
               "server")

\* server.json laid over the server section instead of replacing it
LoadServerMerged ==
    ConfigStep("server",
               IF configuration.files.server.present
               THEN [configuration.config EXCEPT
                       !.server =
                          ModelValidate(configuration.config.server,
                                        configuration.files.server.content)]
               ELSE configuration.config,
               "environ")

\* lines 157-161
LoadServer ==
    ConfigStep("server",
               IF configuration.files.server.present
               THEN [configuration.config EXCEPT
                       !.server =
                          ModelValidate(ServerConfig,
                                        configuration.files.server.content)]
               ELSE configuration.config,
               "environ")

\* lines 162-166: the single file replaces the whole configuration
LoadFile ==
    ConfigStep("file", MCPConfig(configuration.files.main.content), "environ")

\* the server section with the variable of the environment laid over the
\* field, when the variable is set
Override(server, field, variable, value) ==
    IF variable.present THEN [server EXCEPT ![field] = value] ELSE server

\* lines 169-178: the environment is laid over the server section and the
\* configuration is returned; int() may raise
ApplyEnvironment ==
    /\ configuration.pc = "environ"
    /\ LET env  == configuration.environ
           port == IF env.MCP_PORT.present
                   THEN IntOfString(env.MCP_PORT.content) ELSE Ok(IntV(0))
           host == Override(configuration.config.server, "host",
                            env.MCP_HOST, env.MCP_HOST.content)
       IN  IF port.st # "ok"
           THEN configuration' =
                  [configuration EXCEPT
                     !.config = [@ EXCEPT !.server = host],
                     !.fault = port.exc, !.pc = "raised"]
           ELSE configuration' =
                  [configuration EXCEPT
                     !.config =
                        [@ EXCEPT !.server =
                           Override(
                             Override(
                               Override(host, "port", env.MCP_PORT, port.v.n),
                               "log_level", env.LOG_LEVEL,
                               env.LOG_LEVEL.content),
                             "debug", env.DEBUG,
                             Lower(env.DEBUG.content)
                               \in {"true", "1", "yes"})],
                     !.returned = TRUE, !.pc = "returned"]
    /\ UNCHANGED <<calculator, weather, registry, context>>

NextConfiguration ==
    \/ LoadDefault
    \/ LoadMain
    \/ LoadBranding
    \/ LoadLLM
    \/ LoadServer
    \/ LoadFile
    \/ ApplyEnvironment

SpecConfiguration == InitConfiguration /\ [][NextConfiguration]_vars

(***************************************************************************)
(* The properties of calculator_tool.                                      *)
(***************************************************************************)
\* the call returned a record without / with an error
Succeeded == pc = "returned" /\ ~returned.error.some

Failed == pc = "returned" /\ returned.error.some

\* the expression the caller gave, before sanitizing
GivenExpression ==
    IF input_data.expression.some THEN input_data.expression.val ELSE <<>>

\* C1: no fault escapes calculator_tool: whatever input_data it is called
\* with, the missing 'expression' included, the call never ends by raising.
C1_NoFaultEscapes == pc # "raised" /\ fault = NoExc

\* the two shapes of a returned record
SuccessShape(r) == IsNumber(r.result) /\ ~r.error.some /\ r.steps.some

FailureShape(r) ==
    /\ r.result = ErrorMarker
    /\ r.formatted_result = ErrorMarker.s
    /\ r.error.some
    /\ ~r.steps.some

\* C2: every returned record is either a success (a number as result, no
\* error, steps present) or a failure (result and formatted_result "Error",
\* an error message, no steps).
C2_TwoShapes ==
    pc = "returned" => SuccessShape(returned) \/ FailureShape(returned)

\* the identifiers of s that are followed by '(' (whitespace may intervene)
IdentifierCalls(s) ==
    {Slice(s, i, SkipWhile(s, i, WordChars) - 1) :
        i \in {i \in 1..Len(s) :
                 /\ s[i] \in IdentStart
                 /\ (i = 1 \/ s[i - 1] \notin WordChars)
                 /\ CharAt(s, SkipWhile(s, SkipWhile(s, i, WordChars),
                                        Whitespace)) = "("}}

\* the message msg names the identifier
Names(msg, name) == \E i \in 2..Len(msg) : msg[i] = name

\* C3: when the sanitized expression calls an identifier that is no key of
\* the Function Table, nothing is handed to eval and the call fails with a
\* message naming such an identifier.
C3_UnknownFunctionRejected ==
    \A unknown \in {IdentifierCalls(expression) \ SafeFunctionNames} :
        unknown # {} =>
            /\ eval_calls = <<>>
            /\ pc = "returned" =>
                 /\ returned.error.some
                 /\ \E name \in unknown : Names(returned.error.val, name)

\* s has a '.' between a name, literal or ')' and an attribute name
AttributeAccess(s) ==
    \E i \in 2..(Len(s) - 1) :
        /\ s[i] = "."
        /\ s[i - 1] \in WordChars \cup {")"}
        /\ s[i + 1] \in IdentStart

ImportKeyword == <<"i","m","p","o","r","t">>

HasImport(s) ==
    \E i \in 1..Len(s) :
        i + 5 <= Len(s) /\ SubSeq(s, i, i + 5) = ImportKeyword

\* C4: an expression with an attribute access or an import is never
\* evaluated successfully: its call does not return a success record.
C4_NoAttributeAccess ==
    AttributeAccess(GivenExpression) \/ HasImport(GivenExpression)
        => ~Succeeded

\* C5: an expression with a statement separator ';' or an assignment '=' is
\* rejected: its call never returns a success record, the value of what
\* remains of it once the sanitizer removed those characters.
C5_SeparatorRejected ==
    (\E i \in 1..Len(GivenExpression) : GivenExpression[i] \in {";", "="})
        => ~Succeeded

\* C6: in the namespace the expression is evaluated in, every Function
\* Table name denotes its function, whatever variables the caller gave.
C6_FunctionNamesReserved ==
    pc = "eval" =>
        \A env \in {safe_env(variables)} :
            \A f \in SafeFunctionNames : env[f] = _safe_functions[f]

\* C7: a purely numeric expression (digits, whitespace, + - * / ( ) .) with
\* a defined numeric value, given without variables, returns that value as
\* result and no error, integers included.
C7_NumericValue ==
    (pc = "returned" /\ ~input_data.variables.some
        /\ IsSimpleArithmetic(GivenExpression)) =>
        \A value \in {PyEval(GivenExpression, NoBuiltins, heap)} :
            (value.st = "ok" /\ IsNumber(value.v)) =>
                ~returned.error.some /\ returned.result = value.v

AllDigits(s) == s # <<>> /\ \A i \in 1..Len(s) : s[i] \in Digits

\* s is N op M for two unsigned integer literals N and M, op ending at k
Operands(s, op) ==
    {k \in 1..Len(s) :
        /\ k > Len(op) /\ k < Len(s)
        /\ SubSeq(s, k - Len(op) + 1, k) = op
        /\ AllDigits(SubSeq(s, 1, k - Len(op)))
        /\ AllDigits(SubSeq(s, k + 1, Len(s)))}

Left(s, op, k) == DigitsToNat(SubSeq(s, 1, k - Len(op)), 0)

Right(s, k) == DigitsToNat(SubSeq(s, k + 1, Len(s)), 0)

\* C8: "N%*M" evaluates to N/100*M ("50%*200" is 100): its evaluation
\* does not raise, and the value it hands to the formatting is N*M/100.
C8_PercentOf ==
    \A k \in Operands(GivenExpression, <<"%", "*">>) :
        /\ pc # "except"
        /\ pc = "format" =>
             /\ IsFinite(result)
             /\ result.n * 100 =
                  Left(GivenExpression, <<"%", "*">>, k)
                    * Right(GivenExpression, k) * result.d

\* C9: "a^b" evaluates to a raised to b ("2^10" is 1024): the text handed
\* to eval has the power operator, and the value eval returns is a**b.
C9_CaretIsPower ==
    \A k \in Operands(GivenExpression, <<"^">>) :
        pc = "format" =>
            /\ eval_calls = <<SubSeq(GivenExpression, 1, k - 1) \o <<"*", "*">>
                                \o SubSeq(GivenExpression, k + 1,
                                          Len(GivenExpression))>>
            /\ IsFinite(result)
            /\ result.n = PowNat(Left(GivenExpression, <<"^">>, k),
                                 Right(GivenExpression, k)) * result.d

\* the renderings of a number
Unsigned(f) == IF f # <<>> /\ f[1] = "-" THEN Tail(f) ELSE f

\* f is the decimal rendering of the integer n, with no point
IntegerRendering(f, n) ==
    /\ AllDigits(Unsigned(f))
    /\ DigitsToNat(Unsigned(f), 0) = Abs(n)
    /\ (n < 0 <=> f[1] = "-")

\* f has exactly p digits after its decimal point (no point when p = 0)
FixedRendering(f, p) ==
    \E u \in {Unsigned(f)} :
        IF p = 0 THEN AllDigits(u)
        ELSE /\ Len(u) > p + 1
             /\ u[Len(u) - p] = "."
             /\ AllDigits(SubSeq(u, 1, Len(u) - p - 1))
             /\ AllDigits(SubSeq(u, Len(u) - p + 1, Len(u)))

Whole(v) == v.t = "int" \/ (v.t = "float" /\ v.d = 1)

\* the precision the call was asked for
RequestedPrecision ==
    IF parsed_input.precision.some THEN parsed_input.precision.val ELSE -1

\* C10, as stated: on success a whole result is rendered as an integer with
\* no point, and every other result with exactly p digits after the point.
C10_AsStated ==
    Succeeded =>
        IF Whole(returned.result)
        THEN IntegerRendering(returned.formatted_result, returned.result.n)
        ELSE FixedRendering(returned.formatted_result, RequestedPrecision)

InfNanRenderings == {<<"i","n","f">>, <<"-","i","n","f">>, <<"n","a","n">>}

\* C10: on success a whole result is rendered as an integer with no point;
\* a finite non-integral result with exactly p digits after the point; an
\* infinity or NaN as inf, -inf or nan; a string result as itself.
C10_Formatting ==
    Succeeded =>
        CASE Whole(returned.result) ->
               IntegerRendering(returned.formatted_result, returned.result.n)
          [] returned.result.t = "float" /\ returned.result.d # 1 ->
               /\ RequestedPrecision >= 0
               /\ FixedRendering(returned.formatted_result, RequestedPrecision)
          [] returned.result.t \in {"inf", "nan"} ->
               /\ returned.formatted_result \in InfNanRenderings
               /\ returned.formatted_result[1] = "-" <=> returned.result.n < 0
          [] OTHER ->
               /\ returned.result.t = "str"
               /\ returned.formatted_result = returned.result.s

\* a success with a non-integral result rendered at precision 2
C10_Witness ==
    /\ Succeeded
    /\ returned.result.t = "float"
    /\ returned.result.d # 1
    /\ RequestedPrecision = 2
    /\ Len(returned.formatted_result) >= 4

\* s is the product of two finite number literals whose value no float holds
OverflowingProduct(s) ==
    \E lexed \in {Lex(s, 1)} :
        /\ lexed.st = "ok"
        /\ Len(lexed.toks) = 3
        /\ lexed.toks[2] = OpTok("*")
        /\ \A i \in {1, 3} :
              /\ lexed.toks[i].k = "num"
              /\ lexed.toks[i].v.t \in {"int", "float", "big"}
        /\ \E product \in {Arith("*", lexed.toks[1].v, lexed.toks[3].v)} :
              product.st = "ok" /\ product.v.t = "inf"

MathDomainError == Exc("ValueError", <<"math domain error">>)

\* C11: a division by zero, a math-domain error and a numeric overflow each
\* end in the error record that carries the failure's text, and none is
\* returned as a success: an overflowing product is not returned as infinity.
C11_FailuresReported ==
    /\ (pc = "returned"
          /\ (exception.type \in {"ZeroDivisionError", "OverflowError"}
                \/ exception = MathDomainError))
         => Failed /\ returned.error.val = exception.msg
    /\ OverflowingProduct(GivenExpression) => ~Succeeded

\* the precision the caller gave is a negative integer
NegativePrecision(i) ==
    i.precision.given /\ i.precision.opt.some /\ i.precision.opt.val < 0

\* the record r rejects the negative precision
PrecisionRejected(r) ==
    r.error = Some(<<"Format specifier missing precision">>)

\* the record r is a success whose result is rendered as with precision 0
PrecisionClamped(r) ==
    /\ ~r.error.some
    /\ \E f \in {FormatResult(r.result, Some(0), int_is_integer)} :
          f.st = "ok" /\ r.formatted_result = f.v.s

\* C12: a negative precision is rejected or clamped uniformly: of two calls
\* with a negative precision whose expressions have a numeric value, either
\* both end in the error or both render the result as with precision 0,
\* whether the value is whole or not.
C12_NegativePrecisionUniform ==
    (/\ pc = "returned"
     /\ previous.some
     /\ NegativePrecision(input_data)
     /\ NegativePrecision(previous.val.input_data)
     /\ \A r \in {returned, previous.val.returned} :
           PrecisionRejected(r) \/ ~r.error.some)
        => \/ PrecisionRejected(returned)
              /\ PrecisionRejected(previous.val.returned)
           \/ PrecisionClamped(returned)
              /\ PrecisionClamped(previous.val.returned)

\* the names the caller gave a value that are also names of constants
Collisions ==
    IF input_data.variables.some
    THEN DOMAIN input_data.variables.val \cap DOMAIN _safe_constants
    ELSE {}

\* C13: when a caller variable has the name of a built-in constant, the
\* caller's value is the one the expression sees: the namespace of the
\* evaluation maps the name to it, and the expression that is just that
\* name ("pi" with {pi: 10}) returns the caller's value.
C13_VariableOverridesConstant ==
    \A name \in Collisions :
        /\ pc \notin {"call", "prepare"} =>
              variables[name] = input_data.variables.val[name]
        /\ (pc = "returned" /\ GivenExpression = name) =>
              /\ ~returned.error.some
              /\ returned.result = input_data.variables.val[name]

\* "pi" with {pi: 10} has returned 10
C13_Witness ==
    /\ Succeeded
    /\ GivenExpression = <<"p","i">>
    /\ Collisions = {<<"p","i">>}
    /\ returned.result = FloatV(10, 1, TRUE)
    /\ returned.formatted_result = <<"1","0">>

\* s is f(N): a modelled function of the table, sqrt or abs, applied to an
\* integer literal N, which is in the domain of both
InDomainCall(s) ==
    \E f \in {SqrtName, AbsName} :
        /\ Len(s) > Len(f) + 2
        /\ SubSeq(s, 1, Len(f) + 1) = f \o <<"(">>
        /\ s[Len(s)] = ")"
        /\ AllDigits(SubSeq(s, Len(f) + 2, Len(s) - 1))
        /\ (s[Len(f) + 2] = "0" => Len(s) = Len(f) + 3)

\* C14: a call of a function of the table with an argument in its domain
\* succeeds, and a whole value is rendered without a decimal point
\* ("sqrt(16)" yields 4 and "4").
C14_WhitelistedCallSucceeds ==
    (pc = "returned" /\ InDomainCall(GivenExpression)
        /\ ~input_data.variables.some) =>
        /\ Succeeded
        /\ Whole(returned.result) =>
             IntegerRendering(returned.formatted_result, returned.result.n)

\* the call evaluates "x+pi" with variables {x: 1} at precision 2
OnePlusPi ==
    /\ GivenExpression = <<"x", "+", "p", "i">>
    /\ input_data.variables = OneVariable(<<"x">>, 1)
    /\ input_data.precision = Precision(2)

\* C15: a caller variable that collides with no constant leaves the
\* constants untouched: the namespace of the evaluation has the caller's
\* value for it and the built-in value for every constant the caller did
\* not name, and "x + pi" with {x: 1} at precision 2 yields "4.14".
C15_ConstantsUntouched ==
    /\ pc \notin {"call", "prepare", "raised"} =>
          /\ \A c \in DOMAIN _safe_constants \ Collisions :
                c \in DOMAIN variables /\ variables[c] = _safe_constants[c]
          /\ input_data.variables.some =>
                \A x \in DOMAIN input_data.variables.val :
                    /\ x \in DOMAIN variables
                    /\ variables[x] = input_data.variables.val[x]
    /\ (pc = "returned" /\ OnePlusPi) =>
          /\ ~returned.error.some
          /\ returned.result =
                AddFin(FloatV(1, 1, TRUE), _safe_constants[<<"p", "i">>]).v
          /\ returned.formatted_result = <<"4", ".", "1", "4">>

\* "x+pi" with {x: 1} at precision 2 has returned "4.14"
C15_Witness ==
    /\ Succeeded
    /\ OnePlusPi
    /\ variables[<<"x">>] = FloatV(1, 1, TRUE)
    /\ returned.formatted_result = <<"4", ".", "1", "4">>

\* the power operators of a tower of exponentiation a**b**...**z; -1 when
\* s is no such tower
Powers(s) ==
    IF s # <<>> /\ \A i \in 1..Len(s) : s[i] \in Digits \cup {"*"}
    THEN Cardinality({i \in 1..(Len(s) - 1) : s[i] = "*" /\ s[i + 1] = "*"})
    ELSE -1

\* the power operators of the tallest tower an expression of the inputs has
TallestTower == (MaxPieces - 1) \div 2

\* C16: the evaluator enforces a defensive bound on the expression, so that
\* a pathological input, such as a tower of exponentiation, is stopped
\* instead of being computed: the tallest towers of the inputs never come
\* back from eval with a value.
C16_DefensiveBound ==
    pc = "format" => Powers(expression) < TallestTower

\* result, formatted_result and error of a returned record
Outcome(r) ==
    [result |-> r.result, formatted_result |-> r.formatted_result,
     error |-> r.error]

ErrorOutcome(exc) ==
    [result |-> ErrorMarker, formatted_result |-> ErrorMarker.s,
     error |-> Some(exc.msg)]

\* the outcome of the call with input_data i when it is the only call its
\* process serves: the allocator is where a new process has it
RunAlone(i) ==
    LET parsed == CalculatorInput(i)
        value  == _evaluate_expression(_clean_expression(parsed.expression),
                                       PrepareVariables(parsed), 0)
        f      == FormatResult(value.v, parsed.precision, int_is_integer)
    IN  IF value.st # "ok" THEN ErrorOutcome(value.exc)
        ELSE IF f.st # "ok" THEN ErrorOutcome(f.exc)
        ELSE IF ~ValidResult(value.v)
        THEN ErrorOutcome(Exc("ValidationError", <<"result: invalid value">>))
        ELSE [result |-> value.v, formatted_result |-> f.v.s, error |-> None]

\* C17: calls do not interfere: whatever calls the process serves, and in
\* whatever order, the record a call returns is the record the same call
\* returns when it runs alone, as no call writes state another call reads.
C17_NoInterference ==
    pc = "returned" => Outcome(returned) = RunAlone(input_data)

\* the call before this one had the same expression, precision and variables
Repeated ==
    /\ previous.some
    /\ previous.val.fault = NoExc
    /\ previous.val.input_data = input_data

\* C18: evaluation is deterministic: a call with the expression, precision
\* and variables of an earlier call returns the same result,
\* formatted_result and error, whatever ran before; a failed call that is
\* repeated fails again.
C18_Deterministic ==
    (pc = "returned" /\ Repeated) =>
        /\ Outcome(returned) = Outcome(previous.val.returned)
        /\ previous.val.returned.error.some => Failed

\* the characters the claim permits: a digit, a letter, an underscore, a
\* whitespace, or one of + - * / ( ) . , %
Permitted ==
    Digits \cup AsciiLetters \cup OtherLetters \cup {"_"} \cup Whitespace
           \cup {"+", "-", "*", "/", "(", ")", ".", ",", "%"}

\* the permitted characters of s, in their order
Kept(s) == SelectSeq(s, LAMBDA c : c \in Permitted)

\* what a single character of the input becomes in the output
ImageOf(c) ==
    IF c \notin Permitted THEN <<>>
    ELSE IF c = "%" THEN <<"/", "1", "0", "0", "*">>
    ELSE <<c>>

OnlyChars(s, S) == \A k \in 1..Len(s) : s[k] \in S

\* the sanitizer has run on the call's expression
Cleaned == pc = "evaluate"

\* C19: _clean_expression removes exactly the characters that are not a
\* digit, letter, underscore, whitespace or one of + - * / ( ) . , % and
\* keeps every other character in its original order, so its output holds
\* only permitted characters.
C19_RemovesExactlyUnsafe ==
    Cleaned =>
        /\ expression = Kept(parsed_input.expression)
        /\ OnlyChars(expression, Permitted)

\* C19 as amended: the output is the input with every character that is
\* not permitted removed, every % replaced by /100* and every other
\* character kept in its order; it holds only permitted characters and no
\* %; and the step changes nothing but the expression it returns.
C19_RemovesAndRewrites ==
    /\ [](Cleaned =>
            /\ expression =
                 Flatten([k \in 1..Len(parsed_input.expression) |->
                            ImageOf(parsed_input.expression[k])])
            /\ OnlyChars(expression, Permitted \ {"%"}))
    /\ [][pc = "clean" =>
            UNCHANGED <<services, tables, heap, previous, int_is_integer, input_data,
                        parsed_input, variables, result, steps,
                        formatted_result, exception, eval_calls,
                        returned, fault>>]_vars

\* a removed character, a rewritten % and a kept digit in one expression
C19_Witness ==
    /\ Cleaned
    /\ \E k \in 1..Len(parsed_input.expression) :
          parsed_input.expression[k] \notin Permitted
    /\ \E k \in 1..Len(parsed_input.expression) :
          parsed_input.expression[k] = "%"
    /\ \E k \in 1..Len(expression) : expression[k] = "2"

\* C20: the sanitizer is idempotent: sanitizing the expression it returned
\* returns that expression again.
C20_Idempotent ==
    Cleaned => _clean_expression(expression) = expression

\* the sanitizer both removed a character and rewrote a %, so that its
\* output differs from its input
C20_Witness ==
    /\ Cleaned
    /\ expression # parsed_input.expression
    /\ Len(Kept(parsed_input.expression)) < Len(parsed_input.expression)
    /\ Len(expression) > Len(parsed_input.expression)

\* the place of a position of the call in the order of the stages: Idle,
\* Sanitize, Validate-Identifiers, Evaluate, Format, then Result or Error
StageRank(p) ==
    CASE p = "call"     -> 0
      [] p = "prepare"  -> 1
      [] p = "clean"    -> 2
      [] p = "evaluate" -> 3
      [] p = "eval"     -> 4
      [] p = "format"   -> 5
      [] p = "output"   -> 6
      [] p = "except"   -> 7
      [] OTHER          -> 8

\* the call has evaluated its expression, and eval returned a value
Evaluated ==
    /\ eval_calls = <<expression>>
    /\ Len(steps) = 2
    /\ steps[2] = Step("Result: ", <<>>, result)

\* C21: a call runs Sanitize, Validate-Identifiers, Evaluate, Format in
\* this order and ends in Result or Error: the expression is sanitized
\* before its identifiers are validated, an expression with identifiers is
\* evaluated only after its validation passed, formatting happens only
\* after a successful evaluation, and no stage is entered twice.
C21_StageOrder ==
    /\ [](/\ pc = "evaluate" =>
               /\ expression = _clean_expression(parsed_input.expression)
               /\ eval_calls = <<>>
          /\ StageRank(pc) < 3 => expression = <<>> /\ eval_calls = <<>>
          /\ pc = "eval" => ValidateFunctions(expression).st = "ok"
          /\ Len(eval_calls) <= 1
          /\ pc = "format" => Evaluated /\ formatted_result = <<>>
          /\ pc = "output" => Evaluated)
    /\ [][/\ StageRank(pc') > StageRank(pc)
          /\ StageRank(pc) >= 3 => expression' = expression
          /\ eval_calls' # eval_calls =>
                \/ pc = "eval"
                \/ pc = "evaluate" /\ IsSimpleArithmetic(expression)]_vars

\* a call on the general path that went through every stage to a result
C21_Witness ==
    /\ Succeeded
    /\ ~IsSimpleArithmetic(expression)
    /\ FindFunctions(expression, 1) # <<>>
    /\ eval_calls = <<expression>>
    /\ formatted_result # <<>>

\* the identifiers of the expression that are looked up as names: no
\* attribute after a point, and not followed by '('
FreeNames(s) ==
    LET toks == Lex(s, 1).toks
        IsOpAt(i, op) ==
            i >= 1 /\ i <= Len(toks) /\ toks[i].k = "op" /\ toks[i].op = op
    IN  {toks[i].name : i \in {j \in 1..Len(toks) :
                                 /\ toks[j].k = "name"
                                 /\ ~IsOpAt(j - 1, ".")
                                 /\ ~IsOpAt(j + 1, "(")}}

\* the names the claim lets an expression resolve: those of the Function
\* Table, of the constants and of the caller's variables
Resolvable == DOMAIN _safe_functions \cup DOMAIN variables

\* C22: the namespace of an evaluation is closed: on the general path an
\* expression resolves only Function Table names, constant names and the
\* caller's variable names, and an identifier that is none of these (and
\* is not followed by '(') makes the call end in an error result.
C22_NamespaceClosed ==
    (/\ pc = "returned"
     /\ ~IsSimpleArithmetic(expression)
     /\ ~(FreeNames(expression) \subseteq Resolvable)) => Failed

\* the sanitized expression holds only digits, whitespace and + - * / ( ) .
OnlyArithmetic ==
    /\ expression # <<>>
    /\ OnlyChars(expression,
                 Digits \cup Whitespace \cup {"+", "-", "*", "/", "(", ")", "."})

\* the call with the input of this one and no variables mapping
WithoutVariables == [input_data EXCEPT !.variables = None]

\* C23: fast path: a sanitized expression of digits, whitespace and
\* + - * / ( ) . only is evaluated as arithmetic against the empty
\* namespace, so the call returns the result and formatted_result of the
\* call without the variables mapping, and the validation of identifiers
\* has nothing to reject.
C23_FastPath ==
    (pc = "returned" /\ OnlyArithmetic) =>
        /\ steps[1].text = "Evaluating arithmetic expression: "
        /\ eval_calls = <<expression>>
        /\ Outcome(returned) = RunAlone(WithoutVariables)
        /\ functions_used(expression) = <<>>

\* an arithmetic expression evaluated for a caller that gave variables
C23_Witness ==
    /\ Succeeded
    /\ OnlyArithmetic
    /\ input_data.variables.some
    /\ result = IntV(4)

\* the caller's variables that are no Function Table name and that the
\* sanitized expression has in call position: followed by '('
VariablesCalled ==
    IF ~input_data.variables.some THEN {}
    ELSE (DOMAIN input_data.variables.val \cap IdentifierCalls(expression))
            \ SafeFunctionNames

\* C24: a caller's variable used in call position is always an error: when
\* the expression has a variable name that is no Function Table name
\* followed by '(', the call is rejected as an unknown function, which the
\* message names, and nothing is handed to eval.
C24_VariableCallRejected ==
    (StageRank(pc) >= 3 /\ VariablesCalled # {}) =>
        /\ eval_calls = <<>>
        /\ pc = "returned" =>
             /\ returned.error.some
             /\ \E v \in VariablesCalled :
                   returned.error.val = <<"Function is not allowed", v>>

\* the precisions of the calls this one is compared with
ComparedPrecisions ==
    {PrecisionAbsent, Precision(0), Precision(2), Precision(-1)}

\* C26: precision affects the rendered string only: the call with the same
\* expression and variables and another precision returns the same value
\* in result; only formatted_result may differ.
C26_PrecisionRendersOnly ==
    pc = "returned" =>
        \A p \in ComparedPrecisions :
            RunAlone([input_data EXCEPT !.precision = p]).result
                = returned.result

\* C25: the Function Table and the constant table are never changed at
\* runtime: whatever the calls, the two dicts hold the entries they had
\* when the module was loaded.
C25_TablesNeverChange ==
    /\ _safe_functions = LoadedFunctions
    /\ _safe_constants = LoadedConstants

\* the call of weather_tool is on the live path: it has a key and no
\* request has raised
LivePath ==
    /\ weather.api_key.some /\ weather.api_key.val # ""
    /\ weather.exception = NoExc

EnabledKeys(enabled, reg) == SelectSeq(enabled, LAMBDA name : name \in DOMAIN reg)

\* the entries of reg under the names of the list keys
Entries(keys, reg) == [k \in 1..Len(keys) |-> reg[keys[k]]]

\* the names of the list the loop of the stage has gone through
Seen(stage, enabled) ==
    IF registry.pc = stage THEN SubSeq(enabled, 1, registry.n - 1)
    ELSE enabled

\* C28: get_tools returns, in the order of the enabled list and with
\* repeats, exactly the registry entries of the enabled names that are keys
\* of the registry, names that are not are skipped, and the registry is not
\* modified; get_resources does the same with the resource registry; so the
\* tools registered on the server are among echo, weather and calculator.
C28_EnabledEntries ==
    /\ registry._TOOLS = _TOOLS
    /\ registry._RESOURCES = _RESOURCES
    /\ [k \in 1..Len(registry.resources) |-> registry.resources[k].class]
         = Entries(EnabledKeys(Seen("get_resources",
                                    registry.resources_enabled), _RESOURCES),
                   _RESOURCES)
    /\ registry.tools =
         IF registry.pc \in {"get_resources", "add_resource"} THEN <<>>
         ELSE Entries(EnabledKeys(Seen("get_tools", registry.tools_enabled),
                                  _TOOLS),
                      _TOOLS)
    /\ {registry.mcp_tools[k].name : k \in 1..Len(registry.mcp_tools)}
         \subseteq {"echo", "weather", "calculator"}
    /\ registry.pc = "registered" =>
         /\ registry.mcp_tools = registry.tools
         /\ registry.mcp_resources = registry.resources

\* the server has registered the tools of a list that names a tool twice
\* and holds a name that is no tool
C28_Witness ==
    /\ registry.pc = "registered"
    /\ registry.tools_enabled = <<"echo", "shell", "echo">>
    /\ Len(registry.mcp_tools) = 2
    /\ registry.mcp_tools[1] = registry.mcp_tools[2]

\* the calls of the history before the last that set or deleted key
Writes(key) ==
    {n \in 1..(Len(context.calls) - 1) :
       /\ context.calls[n].key = key
       /\ context.calls[n].op \in {"cache_set", "cache_delete"}}

\* the last of them
LastWrite(key) == CHOOSE n \in Writes(key) : \A m \in Writes(key) : m <= n

\* the last call of the history
LastCall == context.calls[Len(context.calls)]

\* C29: on one Context, cache_get(k, d) returns the value of the latest
\* cache_set(k, .) that no cache_delete(k) followed, and d when there is
\* none; cache_delete of a key that is not cached changes nothing and does
\* not raise; cache_get does not change the cache; a call on k leaves what
\* is cached under every other key.
C29_CacheLatestWrite ==
    /\ context.raised = NoExc
    /\ context.calls # <<>> =>
         /\ LastCall.op = "cache_get" =>
              /\ context._cache = context.before
              /\ context.returned =
                   IF /\ Writes(LastCall.key) # {}
                      /\ context.calls[LastWrite(LastCall.key)].op = "cache_set"
                   THEN context.calls[LastWrite(LastCall.key)].arg
                   ELSE LastCall.arg
         /\ (LastCall.op = "cache_delete"
               /\ LastCall.key \notin DOMAIN context.before) =>
              context._cache = context.before
         /\ \A k \in CacheKeys \ {LastCall.key} :
              /\ k \in DOMAIN context._cache <=> k \in DOMAIN context.before
              /\ k \in DOMAIN context._cache =>
                   context._cache[k] = context.before[k]

\* a value was cached and deleted, the key was then deleted once more, and
\* cache_get returned the default
C29_Witness ==
    /\ Len(context.calls) = 4
    /\ context.calls[1] = CacheCall("cache_set", "a", "v")
    /\ context.calls[2] = CacheCall("cache_delete", "a", "None")
    /\ context.calls[3] = CacheCall("cache_delete", "a", "None")
    /\ context.calls[4] = CacheCall("cache_get", "a", "d")
    /\ context.returned = "d"
    /\ context.raised = NoExc

\* the section sec as config.json, or the single file, gives it: the
\* fields it holds there, and the defaults of the others
MainSection(sec, defaults) ==
    IF /\ configuration.path \in {"dir", "file"}
       /\ configuration.files.main.present
       /\ sec \in DOMAIN configuration.files.main.content
    THEN ModelValidate(defaults, configuration.files.main.content[sec])
    ELSE defaults

\* the section sec as the files give it: from its own file of the
\* directory when there is one, else as MainSection
FileSection(sec, defaults) ==
    IF configuration.path = "dir" /\ configuration.files[sec].present
    THEN ModelValidate(defaults, configuration.files[sec].content)
    ELSE MainSection(sec, defaults)

\* the variable of the environment that overrides a field of the server
\* section
VariableOf(field) ==
    CASE field = "host" -> configuration.environ.MCP_HOST
      [] field = "port" -> configuration.environ.MCP_PORT
      [] field = "log_level" -> configuration.environ.LOG_LEVEL
      [] field = "debug" -> configuration.environ.DEBUG

\* C30: in the configuration load_config returns, MCP_HOST, MCP_PORT,
\* LOG_LEVEL and DEBUG, when set, give the host, port, log level and debug
\* flag whatever the defaults and the files say; with a directory,
\* branding.json, llm.json and server.json each replace the section of that
\* name taken from config.json, and a section without a file is as
\* config.json gives it, or the default.
C30_ConfigPrecedence ==
    configuration.pc = "returned" =>
      /\ configuration.environ.MCP_HOST.present =>
           configuration.config.server.host
             = configuration.environ.MCP_HOST.content
      /\ configuration.environ.MCP_PORT.present =>
           IntToStr(configuration.config.server.port)
             = configuration.environ.MCP_PORT.content
      /\ configuration.environ.LOG_LEVEL.present =>
           configuration.config.server.log_level
             = configuration.environ.LOG_LEVEL.content
      /\ configuration.environ.DEBUG.present =>
           (configuration.config.server.debug
              <=> configuration.environ.DEBUG.content
                    \in {"true", "TRUE", "1", "yes", "Yes"})
      /\ configuration.config.branding = FileSection("branding", BrandingConfig)
      /\ configuration.config.llm = FileSection("llm", LLMConfig)
      /\ \A field \in DOMAIN ServerConfig :
           ~VariableOf(field).present =>
              configuration.config.server[field]
                = FileSection("server", ServerConfig)[field]

\* a directory whose config.json sets the port and whose server.json sets
\* the host only, and an environment that sets MCP_HOST: the port is the
\* default again and the host is that of the environment
C30_Witness ==
    /\ configuration.pc = "returned"
    /\ configuration.path = "dir"
    /\ configuration.files.main = Present([server |-> [port |-> 9000, debug |-> TRUE]])
    /\ configuration.files.server = Present([host |-> "server.example"])
    /\ configuration.environ.MCP_HOST.present
    /\ ~configuration.environ.MCP_PORT.present
    /\ configuration.config.server.host = "env.example"
    /\ configuration.config.server.port = 8000

====
